---------------------------- MODULE Spec2Model ----------------------------
(***************************************************************************)
(* A model of the batch scripts of the repository.  Every script is an     *)
(* independent job, so every script has its own group of variables and its *)
(* own specification; a specification leaves the other groups untouched.   *)
(*                                                                         *)
(*   SpecIipm  ansible/roles/iipm-to-es/files/fetch_iipm_data.py           *)
(*   SpecProc  process_data of ansible_collections/.../process_data.py     *)
(*   SpecEmail generate_email_content of the same file, as                 *)
(*             test_email_generation.py calls it                           *)
(*   SpecEs    the update loop of elasticsearch_script.py                  *)
(*   SpecComp  compliance-project/files/elasticsearch_script.py            *)
(*   SpecRoles main of roles/files/process_data.py                         *)
(*   SpecNew   new.py                                                      *)
(*   SpecPipe  the transformation steps of elasticsearch_script.py         *)
(*   SpecGate  main of elasticsearch_script.py, for the index name         *)
(*                                                                         *)
(* JSON objects (Python dicts) are functions whose domain is the set of    *)
(* keys that are present: an optional field that is absent is a key that   *)
(* is not in the DOMAIN.  Elasticsearch itself is not part of the          *)
(* repository: an index is modelled as the sequence of its documents, a    *)
(* search returns the matching documents in index order, and a write is    *)
(* seen by every later search unless a section says otherwise.             *)
(***************************************************************************)
EXTENDS Integers, Sequences, FiniteSets, TLC

VARIABLES
    \* ---- fetch_iipm_data.py (SpecIipm)
    tIndex,         \* the target index: a sequence of [_id, _source]
    iipm_data,      \* the IIPM lookup, in dict order: a sequence of <<appCode, item>>
    existing_data,  \* the dict get_existing_data returned in this run
    updates,        \* the dict of lists compare_and_update builds
    iWrites,        \* the es.index / es.update calls of this run, in order
    ipc,            \* where the run is: "start", "compare", "done", "failed"
    ipos,           \* the next entry of iipm_data that compare_and_update visits
    irun,           \* the number of the run
    searchRaised,   \* whether es.search raised in get_existing_data in this run
    summary,        \* the summary file of this run: whether written, and its stats
    \* ---- process_data.py of the email notification role (SpecProc, SpecEmail)
    results_keys,   \* the keys of the dict load_results_from_json returned, in order
    pk,             \* the place in results_keys of the key process_data is walking
    ppc,            \* "walk", "returned", "raised", "emailed", "email_raised"
    pdepth,         \* the loop that runs its next pass: 0 is the loop over the keys
    prem,           \* prem[d]: the buckets the loop at depth d has still to visit
    ploc,           \* the locals app_code, item_type_key, date, unique_issues
    processed_data, \* the mapping process_data builds: appCode -> type -> records
    pd_order,       \* the appCodes of processed_data in insertion order
    pused,          \* the number of buckets the input holds so far
    pIn,            \* the input seen so far, flat: one entry per innermost bucket
    pTimes,         \* the time buckets of p1_p2_vulnerabilities seen so far
    ppath,          \* the buckets the loops are at, one per depth, without lists
    email_content,  \* the mapping generate_email_content returns
    files,          \* the files generate_email_content wrote: name -> content
    file_writes,    \* the names of the files written, one per write, in order
    \* ---- elasticsearch_script.py (SpecEs)
    eIndex,         \* the index: a sequence of [_id, _source]
    eVisible,       \* the documents a search sees: those up to the last refresh
    eData,          \* the records of the input file
    final_data,     \* the records after the transformations of main
    epos,           \* the next record the loop of main visits
    epc,            \* "loop", "done"
    erun,           \* the number of the run over the input file
    eLast,          \* what the last pass of the loop asked of Elasticsearch
    success_count,  \* success_count of main
    error_count,    \* error_count of main
    eFirstRun,      \* after the first run: its error_count and the documents it left
    \* ---- compliance-project/files/elasticsearch_script.py (SpecComp)
    cIndex,         \* the compliance index: a sequence of [_id, _source]
    iipm_lookup,    \* the dict create_iipm_lookup returned in this run
    compliance_data,\* the list load_json_file returned in this run
    cpos,           \* the next item the loop of enrich_and_update visits
    cpc,            \* "load", "connect", "fetch", "loop", "done", "exit1"
    crun,           \* the number of the run
    cLast,          \* the last pass of the loop: the item read and the doc sent
    cWrites,        \* the ids of the es.update calls of this run, in order
    cOks,           \* for every es.update call of this run, whether it returned
    cSeen,          \* what main met in this run: the file, the client, the search
    \* ---- roles/files/process_data.py (SpecRoles)
    rpc,            \* where main is: "start", "reported", "prepared", "written", "exit"
    rInput,         \* the input file: whether it can be read, and its JSON
    rArgs,          \* args.email_template and args.email_output, None when not given
    rTemplate,      \* the template file: "missing", "empty" or "text"
    success,        \* success of main, once generate_report has returned
    rContent,       \* email_content of main
    rReport,        \* the report file: "absent", "partial" or "written"
    rEmailFile,     \* the email content file: None, or the text written to it
    rEvents,        \* what main has done so far, in order
    exit_status,    \* the exit status of the process, None while it runs
    \* ---- new.py (SpecNew)
    nIipm,          \* the IIPM index: the _source of its documents, in scan order
    nNpid,          \* the NPID index: a sequence of [_id, _source]
    nHygiene,       \* the server hygiene index: a sequence of [_id, _source]
    nUpdates,       \* the list updates of the script: the bulk actions queued
    npos,           \* the next document the scan yields
    npc,            \* "scan", "done", "failed"
    nrun,           \* the number of the run
    \* ---- the transformation steps of main of elasticsearch_script.py (SpecPipe)
    tData,          \* data of main: the records json.load returned
    transformed_data, \* the records transform_roles built, as the later steps leave them
    tpc,            \* "loaded", "transformed", "formatted", "objects", "returned"
    \* ---- main of elasticsearch_script.py around the index name (SpecGate)
    gArg,           \* args.index_name, a sequence of characters and words
    index_name,     \* index_name of main
    VALIDATED_INDEX_NAME, \* the name get_safe_index_name returns, once it is set
    gReBound,       \* whether the import of re at line 209 has run
    gLeft,          \* the records of final_data the loop has still to visit
    gCalls,         \* the calls main has made of the Elasticsearch client, in order
    gpc             \* "parse", "validate", "load", "connect", "ensure", "count",
                    \* "loop", "done", "returned", "raised"

iipmVars == <<tIndex, iipm_data, existing_data, updates, iWrites, ipc, ipos, irun,
              searchRaised, summary>>

procVars == <<results_keys, pk, ppc, pdepth, prem, ploc, processed_data, pd_order,
              pused, pIn, pTimes, ppath, email_content, files, file_writes>>

esVars == <<eIndex, eVisible, eData, final_data, epos, epc, erun, eLast, success_count,
            error_count, eFirstRun>>

compVars == <<cIndex, iipm_lookup, compliance_data, cpos, cpc, crun, cLast, cWrites,
              cOks, cSeen>>

rolesVars == <<rpc, rInput, rArgs, rTemplate, success, rContent, rReport,
               rEmailFile, rEvents, exit_status>>

newVars == <<nIipm, nNpid, nHygiene, nUpdates, npos, npc, nrun>>

pipeVars == <<tData, transformed_data, tpc>>

gateVars == <<gArg, index_name, VALIDATED_INDEX_NAME, gReBound, gLeft, gCalls, gpc>>

vars == <<iipmVars, procVars, esVars, compVars, rolesVars, newVars, pipeVars,
          gateVars>>

\* what a run of fetch_iipm_data.py leaves alone
notIipm == <<procVars, esVars, compVars, rolesVars, newVars, pipeVars,
    gateVars>>
\* what a run of process_data.py leaves alone
notProc == <<iipmVars, esVars, compVars, rolesVars, newVars, pipeVars,
    gateVars>>
\* what a run of elasticsearch_script.py leaves alone
notEs == <<iipmVars, procVars, compVars, rolesVars, newVars, pipeVars,
    gateVars>>
\* what a run of the compliance script leaves alone
notComp == <<iipmVars, procVars, esVars, rolesVars, newVars, pipeVars,
    gateVars>>
\* what a run of roles/files/process_data.py leaves alone
notRoles == <<iipmVars, procVars, esVars, compVars, newVars, pipeVars,
    gateVars>>
\* what a run of new.py leaves alone
notNew == <<iipmVars, procVars, esVars, compVars, rolesVars, pipeVars,
    gateVars>>
\* what the transformation steps leave alone
notPipe == <<iipmVars, procVars, esVars, compVars, rolesVars, newVars,
    gateVars>>
\* what main, followed for its index name, leaves alone
notGate == <<iipmVars, procVars, esVars, compVars, rolesVars, newVars, pipeVars>>

----------------------------------------------------------------------------
(* Bounds of the model.                                                    *)

\* the largest number of documents of a target index before the first run
MaxDocs == 2
\* the number of runs of fetch_iipm_data.py over the same IIPM data
MaxRuns == 2
\* the largest number of buckets of an input of process_data
MaxBuckets == 5
\* the largest number of records of a list handed to generate_email_content
MaxRecords == 2
\* the largest number of records of an input file of elasticsearch_script.py
MaxInput == 2
\* the largest number of hits of an input file of roles/files/process_data.py
MaxHits == 2
\* the largest number of employees a role of a record lists
MaxEmployees == 2
\* the largest number of characters and words of an index name argument
MaxName == 3

----------------------------------------------------------------------------
(* Python and JSON values.                                                 *)

\* Python's None and JSON's null
None == "<None>"
\* float('nan')
NaN == "<NaN>"
\* the empty dict {}
EmptyDict == [k \in {} |-> None]

\* bool(v) of a string or None
Truthy(v) == v # None /\ v # ""

\* d.get(k): None when the key is absent
Get(d, k) == IF k \in DOMAIN d THEN d[k] ELSE None

\* d.get(k, default)
GetOr(d, k, default) == IF k \in DOMAIN d THEN d[k] ELSE default

\* a != b of Python: NaN differs from everything, itself included
PyNe(a, b) == a = NaN \/ b = NaN \/ a # b

\* dict.update / the merge of a partial document into a stored one
DictUpdate(d, changes) ==
    [k \in DOMAIN d \cup DOMAIN changes |->
        IF k \in DOMAIN changes THEN changes[k] ELSE d[k]]

\* the elements of a sequence
Range(s) == {s[i] : i \in 1..Len(s)}

\* every sequence over S of length at most n
SeqsUpTo(S, n) == UNION {[1..k -> S] : k \in 0..n}

----------------------------------------------------------------------------
(* The state of a script that is not running: a specification of one       *)
(* script keeps the variables of the others in this state.                 *)

\* the lists of compare_and_update before its loop
NoUpdates == [new |-> <<>>, modified |-> <<>>, unchanged |-> <<>>]

\* a run that has written no summary file
NoSummary == [written |-> FALSE, new_records |-> 0, modified_records |-> 0,
              unchanged_records |-> 0, total_records_processed |-> 0]

IipmIdle ==
    /\ tIndex = <<>>
    /\ iipm_data = <<>>
    /\ existing_data = EmptyDict
    /\ updates = NoUpdates
    /\ iWrites = <<>>
    /\ ipc = "idle"
    /\ ipos = 1
    /\ irun = 1
    /\ searchRaised = FALSE
    /\ summary = NoSummary

\* the place of a loop that is at no bucket
NoBucket == [key |-> None, unique_issues |-> 0]

\* the locals of process_data before its loops
NoLocals == [app_code |-> None, item_type_key |-> None, date |-> None,
             unique_issues |-> 0]

ProcIdle ==
    /\ results_keys = <<>>
    /\ pk = 0
    /\ ppc = "idle"
    /\ pdepth = 0
    /\ prem = <<0, 0, 0, 0, 0>>
    /\ ploc = NoLocals
    /\ processed_data = EmptyDict
    /\ pd_order = <<>>
    /\ pused = 0
    /\ pIn = <<>>
    /\ pTimes = <<>>
    /\ ppath = <<NoBucket, NoBucket, NoBucket, NoBucket>>
    /\ email_content = EmptyDict
    /\ files = EmptyDict
    /\ file_writes = <<>>

\* a pass of the update loop that asked nothing of Elasticsearch
NoRequests == [appCode |-> None, searched |-> FALSE, hits |-> <<>>,
               updates |-> <<>>, indexed |-> <<>>]

EsIdle ==
    /\ eIndex = <<>>
    /\ eVisible = 0
    /\ eData = <<>>
    /\ final_data = <<>>
    /\ epos = 1
    /\ epc = "idle"
    /\ erun = 1
    /\ eLast = NoRequests
    /\ success_count = 0
    /\ error_count = 0
    /\ eFirstRun = [errors |-> 0, docs |-> 0]

\* a pass of the enrichment loop that sent nothing
NothingSent == [sent |-> FALSE, item |-> EmptyDict, doc |-> EmptyDict]

\* a run of the compliance script that has met nothing yet
NothingSeen == [file |-> "unread", client |-> "none", search |-> "none", hits |-> 0]

CompIdle ==
    /\ cIndex = <<>>
    /\ iipm_lookup = EmptyDict
    /\ compliance_data = <<>>
    /\ cpos = 1
    /\ cpc = "idle"
    /\ crun = 1
    /\ cLast = NothingSent
    /\ cWrites = <<>>
    /\ cOks = <<>>
    /\ cSeen = NothingSeen

RolesIdle ==
    /\ rpc = "idle"
    /\ rInput = [readable |-> FALSE, data |-> EmptyDict]
    /\ rArgs = [email_template |-> None, email_output |-> None]
    /\ rTemplate = "missing"
    /\ success = FALSE
    /\ rContent = None
    /\ rReport = "absent"
    /\ rEmailFile = None
    /\ rEvents = <<>>
    /\ exit_status = None

NewIdle ==
    /\ nIipm = <<>>
    /\ nNpid = <<>>
    /\ nHygiene = <<>>
    /\ nUpdates = <<>>
    /\ npos = 1
    /\ npc = "idle"
    /\ nrun = 1

PipeIdle ==
    /\ tData = <<>>
    /\ transformed_data = <<>>
    /\ tpc = "idle"

GateIdle ==
    /\ gArg = <<>>
    /\ index_name = <<>>
    /\ VALIDATED_INDEX_NAME = <<>>
    /\ gReBound = FALSE
    /\ gLeft = 0
    /\ gCalls = <<>>
    /\ gpc = "idle"

----------------------------------------------------------------------------
(* fetch_iipm_data.py: reconcile the IIPM lookup with the target index.    *)

AppCodes == {"A1", "A2"}

\* the entries fetch_iipm_data builds: the four fields are always present
IipmItems ==
    [contactMail : {"m1", None, NaN}, appCustodianId : {"c1"},
     l4_id : {"e4"}, l5_id : {"e5"}]

\* the lookups: a dict keeps its keys distinct
IipmLookups ==
    {s \in SeqsUpTo(AppCodes \X IipmItems, Cardinality(AppCodes)) :
        \A i, j \in 1..Len(s) : i # j => s[i][1] # s[j][1]}

\* the _source of a document of the target index before the first run
TargetSources ==
    {a @@ f : a \in {EmptyDict} \cup {[appCode |-> c] : c \in AppCodes},
              f \in {EmptyDict,
                     [appCustodianId |-> "c1", l4_id |-> "e4", l5_id |-> "e5"],
                     [contactMail |-> "m1", appCustodianId |-> "c1", l5_id |-> "e5"],
                     [contactMail |-> "m0", appCustodianId |-> "c1", l4_id |-> "e4",
                      l5_id |-> "e5", name |-> "keep"]}}

\* the target indices before the first run: the _id of a document is its place
TargetIndices ==
    {[i \in 1..Len(s) |-> [_id |-> i, _source |-> s[i]]] :
        s \in SeqsUpTo(TargetSources, MaxDocs)}

\* es.search(index=target_index, body={"query": {"match_all": {}}}): every document
SearchAll(index) == index

\* the loop of get_existing_data over the first n hits: a later hit replaces an
\* earlier one with the same appCode, a hit without an appCode is skipped
RECURSIVE ExistingOf(_, _)
ExistingOf(hits, n) ==
    IF n = 0 THEN EmptyDict
    ELSE LET source == hits[n]._source
             appcode == Get(source, "appCode")
         IN  IF Truthy(appcode)
             THEN (appcode :> [_id |-> hits[n]._id, data |-> source])
                    @@ ExistingOf(hits, n - 1)
             ELSE ExistingOf(hits, n - 1)

get_existing_data(index) ==
    LET hits == SearchAll(index) IN ExistingOf(hits, Len(hits))

clean_data(item) == [k \in DOMAIN item |-> IF item[k] = NaN THEN None ELSE item[k]]

\* the document compare_and_update indexes for an appCode that is new
new_record(appcode, clean_iipm_item) ==
    [appCode |-> appcode,
     contactMail |-> Get(clean_iipm_item, "contactMail"),
     appCustodianId |-> Get(clean_iipm_item, "appCustodianId"),
     l4_id |-> Get(clean_iipm_item, "l4_id"),
     l5_id |-> Get(clean_iipm_item, "l5_id")]

\* a comparison of the contact address alone
IsModified_MailOnly(clean_iipm_item, existing) ==
    PyNe(clean_iipm_item["contactMail"], Get(existing, "contactMail"))

\* any(clean_iipm_item[k] != existing.get(k) for k in clean_iipm_item.keys())
IsModified(clean_iipm_item, existing) ==
    \E k \in DOMAIN clean_iipm_item : PyNe(clean_iipm_item[k], Get(existing, k))

\* es.index(index, body): a new document with an _id of its own
EsIndex(index, body) == Append(index, [_id |-> Len(index) + 1, _source |-> body])

\* an update that does not select the document by its id
EsUpdate_All(index, id, doc) ==
    [i \in 1..Len(index) |-> [index[i] EXCEPT !._source = DictUpdate(@, doc)]]

\* es.update(index, id, body={'doc': doc}): the fields of doc replace those stored
EsUpdate(index, id, doc) ==
    [i \in 1..Len(index) |->
        IF index[i]._id = id
        THEN [index[i] EXCEPT !._source = DictUpdate(@, doc)]
        ELSE index[i]]

\* a plain else branch gone: an appCode reported modified is reported unchanged too
Reported_FallThrough(lists, kind, appcode) ==
    IF kind = "modified"
    THEN [lists EXCEPT !.modified = Append(@, appcode),
                       !.unchanged = Append(@, appcode)]
    ELSE [lists EXCEPT ![kind] = Append(@, appcode)]

\* updates[kind].append(appcode)
Reported(lists, kind, appcode) == [lists EXCEPT ![kind] = Append(@, appcode)]

IipmInit ==
    /\ tIndex \in TargetIndices
    /\ iipm_data \in IipmLookups
    /\ existing_data = EmptyDict
    /\ updates = NoUpdates
    /\ iWrites = <<>>
    /\ ipc = "start"
    /\ ipos = 1
    /\ irun = 1
    /\ searchRaised = FALSE
    /\ summary = NoSummary

\* main, lines 139-148: get_existing_data returns the dict of the hits; when
\* es.search raises, it prints the error and returns {}
GetExisting ==
    /\ ipc = "start"
    /\ \E raised \in BOOLEAN :
        /\ searchRaised' = raised
        /\ existing_data' = IF raised THEN EmptyDict ELSE get_existing_data(tIndex)
    /\ updates' = NoUpdates
    /\ iWrites' = <<>>
    /\ ipos' = 1
    /\ ipc' = "compare"
    /\ summary' = NoSummary
    /\ UNCHANGED <<tIndex, iipm_data, irun>>
    /\ UNCHANGED notIipm

\* one pass of the loop of compare_and_update; a write that raises ends the run
\* (the exception leaves compare_and_update and main exits with status 1)
CompareStep ==
    /\ ipc = "compare"
    /\ ipos <= Len(iipm_data)
    /\ LET appcode == iipm_data[ipos][1]
           clean_iipm_item == clean_data(iipm_data[ipos][2])
       IN  IF appcode \notin DOMAIN existing_data
           THEN LET body == new_record(appcode, clean_iipm_item) IN
                /\ updates' = Reported(updates, "new", appcode)
                /\ iWrites' = Append(iWrites,
                       [op |-> "index", appcode |-> appcode, id |-> 0, body |-> body])
                /\ \E ok \in BOOLEAN :
                     IF ok THEN /\ tIndex' = EsIndex(tIndex, body)
                                /\ ipc' = "compare"
                           ELSE /\ tIndex' = tIndex
                                /\ ipc' = "failed"
           ELSE LET existing == existing_data[appcode].data IN
                IF IsModified(clean_iipm_item, existing)
                THEN /\ updates' = Reported(updates, "modified", appcode)
                     /\ iWrites' = Append(iWrites,
                            [op |-> "update", appcode |-> appcode,
                             id |-> existing_data[appcode]._id,
                             body |-> clean_iipm_item])
                     /\ \E ok \in BOOLEAN :
                          IF ok THEN /\ tIndex' = EsUpdate(tIndex,
                                            existing_data[appcode]._id, clean_iipm_item)
                                     /\ ipc' = "compare"
                                ELSE /\ tIndex' = tIndex
                                     /\ ipc' = "failed"
                ELSE /\ updates' = Reported(updates, "unchanged", appcode)
                     /\ UNCHANGED <<tIndex, iWrites, ipc>>
    /\ ipos' = ipos + 1
    /\ UNCHANGED <<iipm_data, existing_data, irun, searchRaised, summary>>
    /\ UNCHANGED notIipm

\* compare_and_update returns the lists and main writes the summary, lines
\* 155-167; when the output file cannot be written main exits with status 1
CompareDone ==
    /\ ipc = "compare"
    /\ ipos > Len(iipm_data)
    /\ \E ok \in BOOLEAN :
         IF ok THEN /\ summary' = [written |-> TRUE,
                                   new_records |-> Len(updates.new),
                                   modified_records |-> Len(updates.modified),
                                   unchanged_records |-> Len(updates.unchanged),
                                   total_records_processed |-> Len(iipm_data)]
                    /\ ipc' = "done"
               ELSE /\ summary' = summary
                    /\ ipc' = "failed"
    /\ UNCHANGED <<tIndex, iipm_data, existing_data, updates, iWrites, ipos, irun,
                   searchRaised>>
    /\ UNCHANGED notIipm

\* the playbook runs the script again, with the same IIPM data
NextRun ==
    /\ ipc = "done"
    /\ irun < MaxRuns
    /\ irun' = irun + 1
    /\ ipc' = "start"
    /\ UNCHANGED <<tIndex, iipm_data, existing_data, updates, iWrites, ipos,
                   searchRaised, summary>>
    /\ UNCHANGED notIipm

IipmNext == GetExisting \/ CompareStep \/ CompareDone \/ NextRun

\* a run of fetch_iipm_data.py, the other scripts idle
IipmStart == IipmInit /\ ProcIdle /\ EsIdle /\ CompIdle /\ RolesIdle /\ NewIdle
    /\ PipeIdle /\ GateIdle

SpecIipm == IipmStart /\ [][IipmNext]_vars

----------------------------------------------------------------------------
(* C1: a second run of get_existing_data and compare_and_update, with the  *)
(* same IIPM data and after a complete first run, calls neither es.index   *)
(* nor es.update and classifies every IIPM appCode as 'unchanged'.         *)
C1_SecondRunIdle ==
    (irun >= 2 /\ ipc = "done") =>
        /\ iWrites = <<>>
        /\ updates.new = <<>>
        /\ updates.modified = <<>>
        /\ updates.unchanged = [i \in 1..Len(iipm_data) |-> iipm_data[i][1]]

\* what the code does keep: the second run is idle when its read of the target
\* index did not raise
SecondRunIdleAfterRead ==
    (irun >= 2 /\ ipc = "done" /\ ~searchRaised) =>
        /\ iWrites = <<>>
        /\ updates.unchanged = [i \in 1..Len(iipm_data) |-> iipm_data[i][1]]

\* the fields of an entry of the IIPM lookup, fetch_iipm_data lines 67-72
IipmFields == {"contactMail", "appCustodianId", "l4_id", "l5_id"}

\* the appCodes of the IIPM data
IipmKeys == {iipm_data[i][1] : i \in 1..Len(iipm_data)}

\* the appCodes of the calls of one kind, in the order of the calls
CalledFor(op) ==
    LET calls == SelectSeq(iWrites, LAMBDA w : w.op = op)
    IN  [i \in 1..Len(calls) |-> calls[i].appcode]

(* C12: compare_and_update calls es.index exactly once for each appCode it *)
(* reports as 'new', es.update exactly once for each appCode it reports as *)
(* 'modified' and always with the _id stored in existing_data for that     *)
(* appCode, and makes no write for an 'unchanged' appCode; a target        *)
(* document whose appCode is not in the IIPM data is never written or      *)
(* deleted.                                                                *)
C12_WritesOnlyWhatItClassifies ==
    /\ [](/\ CalledFor("index") = updates.new
          /\ CalledFor("update") = updates.modified
          /\ \A i \in 1..Len(iWrites) :
               /\ iWrites[i].op = "update"
                    => iWrites[i].id = existing_data[iWrites[i].appcode]._id
               /\ iWrites[i].appcode \notin Range(updates.unchanged))
    /\ [][\A i \in 1..Len(tIndex) :
            Get(tIndex[i]._source, "appCode") \notin IipmKeys
              => Len(tIndex') >= i /\ tIndex'[i] = tIndex[i]]_vars

\* a run that indexed one appCode and updated another, next to a document of the
\* target index that carries no appCode of the IIPM data
C12_IndexedUpdatedAndForeign ==
    /\ ipc = "done"
    /\ Len(updates.new) = 1
    /\ Len(updates.modified) = 1
    /\ \E i \in 1..Len(tIndex) : Get(tIndex[i]._source, "appCode") \notin IipmKeys

\* an IIPM field of the item, NaN replaced by None, is not the value the existing
\* document holds for it
FieldDiffers(item, existing) ==
    \E f \in IipmFields :
        (IF item[f] = NaN THEN None ELSE item[f])
            # (IF f \in DOMAIN existing THEN existing[f] ELSE None)

(* C13: an IIPM appCode is 'new' iff it is not a key of existing_data;     *)
(* otherwise it is 'modified' iff at least one of contactMail,             *)
(* appCustodianId, l4_id, l5_id (NaN replaced by None) differs from the    *)
(* existing document's value, an absent field counting as None; otherwise  *)
(* it is 'unchanged'.  The update body holds only the IIPM fields, so      *)
(* every other field of the existing document is left as it was.           *)
C13_ClassificationRule ==
    /\ \A i \in 1..(ipos - 1) :
         LET appcode == iipm_data[i][1]
             item == iipm_data[i][2]
             known == appcode \in DOMAIN existing_data
         IN  /\ appcode \in Range(updates.new) <=> ~known
             /\ appcode \in Range(updates.modified)
                  <=> (known /\ FieldDiffers(item, existing_data[appcode].data))
             /\ appcode \in Range(updates.unchanged)
                  <=> (known /\ ~FieldDiffers(item, existing_data[appcode].data))
    /\ \A i \in 1..Len(iWrites) :
         iWrites[i].op = "update" =>
           LET existing == existing_data[iWrites[i].appcode].data IN
           /\ DOMAIN iWrites[i].body = IipmFields
           /\ \A j \in 1..Len(tIndex) :
                tIndex[j]._id = iWrites[i].id =>
                  /\ DOMAIN tIndex[j]._source \ IipmFields = DOMAIN existing \ IipmFields
                  /\ \A k \in DOMAIN existing \ IipmFields :
                       tIndex[j]._source[k] = existing[k]

\* an appCode left unchanged whose document has no contactMail while the IIPM
\* item has NaN or None, next to one modified whose document keeps its other field
C13_AbsentIsNoneAndOthersKept ==
    /\ ipc = "done"
    /\ \E a \in Range(updates.unchanged) :
         "contactMail" \notin DOMAIN existing_data[a].data
    /\ \E i \in 1..Len(iipm_data) :
         /\ iipm_data[i][1] \in Range(updates.unchanged)
         /\ iipm_data[i][2].contactMail = NaN
    /\ \E j \in 1..Len(tIndex) :
         /\ Get(tIndex[j]._source, "appCode") \in Range(updates.modified)
         /\ Get(tIndex[j]._source, "name") = "keep"
         /\ tIndex[j]._source.contactMail = "m1"

\* no element of a list is in it twice
NoDuplicates(s) == \A i, j \in 1..Len(s) : i # j => s[i] # s[j]

(* C14: the lists 'new', 'modified' and 'unchanged' that compare_and_update *)
(* returns are pairwise disjoint, hold no duplicates, and their union is    *)
(* the set of the IIPM appCodes; in every summary file main writes,         *)
(* new_records + modified_records + unchanged_records equals                *)
(* total_records_processed.                                                 *)
C14_ListsPartitionAppCodes ==
    /\ NoDuplicates(updates.new \o updates.modified \o updates.unchanged)
    /\ ipc = "done" =>
         Range(updates.new) \cup Range(updates.modified)
            \cup Range(updates.unchanged) = IipmKeys
    /\ summary.written =>
         summary.new_records + summary.modified_records + summary.unchanged_records
            = summary.total_records_processed

\* a summary that counts a modified and an unchanged record
C14_SummaryOfTwoKinds ==
    /\ ipc = "done"
    /\ summary.written
    /\ summary.modified_records = 1
    /\ summary.unchanged_records = 1
    /\ summary.total_records_processed = 2

(* C15: if the search in get_existing_data raises, the run creates no new  *)
(* document in the target index for an appCode that already has a document *)
(* there.                                                                  *)
C15_FailedReadCreatesNoDocument ==
    [][(searchRaised /\ Len(tIndex') > Len(tIndex)) =>
         \A i \in 1..Len(tIndex) :
            Get(tIndex[i]._source, "appCode")
                # tIndex'[Len(tIndex')]._source.appCode]_vars

----------------------------------------------------------------------------
(* process_data.py of the email notification role: process_data walks the  *)
(* nested aggregation buckets.  The input is revealed as the loops reach   *)
(* it: a list of buckets is known by its length, and every pass of a loop  *)
(* draws the bucket it visits.  MaxBuckets bounds the buckets of an input. *)

PApps == {"ATU0", "BXK0"}
PTypes == {"Windows Server Vulnerabilities", "Cryptography"}
PDates == {"2025-02-21", "2025-02-22"}
PIssues == {"CVE-2023-12345", "CVE-2023-23456"}
PValues == {5}

\* the keys load_results_from_json loads, in its order
ResultKeys == <<"p1_p2_vulnerabilities", "cryptography_tss_opendata", "trends">>

\* the dicts load_results_from_json may return: a file that is missing is skipped
ResultKeyLists ==
    {SelectSeq(ResultKeys, LAMBDA k : k \in S) : S \in SUBSET Range(ResultKeys)}

\* a list of n buckets, whose buckets are drawn as the loop over it runs
ListOf(n) == [len |-> n]
EmptyList == ListOf(0)

\* the dicts in which the field is absent or holds a value of S
Opt(field, S) == {EmptyDict} \cup {field :> v : v \in S}

\* the dicts in which the aggregation `field` is absent, lacks its "buckets", or
\* holds a list of at most `room` buckets
Agg(field, room) ==
    Opt(field, {EmptyDict} \cup {[buckets |-> ListOf(n)] : n \in 0..room})

\* x.get(field, {}).get('buckets', [])
BucketsOf(x, field) == GetOr(GetOr(x, field, EmptyDict), "buckets", EmptyList)

\* data.get('aggregations', {}).get(top, {}).get('buckets', [])
TopBuckets(data, top) == BucketsOf(GetOr(data, "aggregations", EmptyDict), top)

\* a walk that reads the issue names of p1_count instead
IssueBuckets_P1(time_bucket) ==
    BucketsOf(GetOr(time_bucket, "p1_count", EmptyDict), "issue_names")

\* time_bucket.get('p2_count', {}).get('issue_names', {}).get('buckets', [])
IssueBuckets(time_bucket) ==
    BucketsOf(GetOr(time_bucket, "p2_count", EmptyDict), "issue_names")

\* x.get('unique_issues', {}).get('value', 0)
UniqueIssues(x) == GetOr(GetOr(x, "unique_issues", EmptyDict), "value", 0)

\* the buckets the input may still hold
Room == MaxBuckets - pused

UniqueIssuesPool == Opt("unique_issues", {EmptyDict} \cup {[value |-> v] : v \in PValues})

\* what the input holds in a bucket, read without the code: its key (a date
\* histogram names it key_as_string) and its unique_issues.value, 0 when absent
Seen(bucket) ==
    [key |-> IF "key" \in DOMAIN bucket THEN bucket["key"]
             ELSE bucket["key_as_string"],
     unique_issues |->
        IF "unique_issues" \in DOMAIN bucket /\ "value" \in DOMAIN bucket["unique_issues"]
        THEN bucket["unique_issues"]["value"] ELSE 0]

\* the loop that runs next: the innermost one that has buckets left
Deepest(r) ==
    IF \A d \in 1..4 : r[d] = 0 THEN 0
    ELSE CHOOSE d \in 1..4 : r[d] > 0 /\ \A e \in (d + 1)..4 : r[e] = 0

\* the loop at depth d has visited a bucket that holds n buckets one level down
Visit(d, bucket, n) ==
    /\ prem' = [prem EXCEPT ![d] = @ - 1, ![d + 1] = n]
    /\ pdepth' = Deepest(prem')
    /\ pused' = pused + n
    /\ ppath' = [i \in 1..4 |-> IF i < d THEN ppath[i]
                                 ELSE IF i = d THEN Seen(bucket) ELSE NoBucket]

\* a KeyError leaves process_data
Raise ==
    /\ ppc' = "raised"
    /\ UNCHANGED <<results_keys, pk, pdepth, prem, ploc, processed_data, pd_order,
                   pused, pIn, pTimes, ppath>>

\* a mapping that keeps the last record of a list only
Appended_Last(pd, app_code, type_key, record) ==
    (app_code :> ((type_key :> <<record>>) @@ GetOr(pd, app_code, EmptyDict))) @@ pd

\* processed_data[app_code][type_key].append(record), on a defaultdict of
\* defaultdicts of lists
Appended(pd, app_code, type_key, record) ==
    LET inner == GetOr(pd, app_code, EmptyDict)
        list == GetOr(inner, type_key, <<>>)
    IN  (app_code :> ((type_key :> Append(list, record)) @@ inner)) @@ pd

Emit(app_code, type_key, record) ==
    /\ processed_data' = Appended(processed_data, app_code, type_key, record)
    /\ pd_order' = IF app_code \in DOMAIN processed_data THEN pd_order
                   ELSE Append(pd_order, app_code)

\* the input held an innermost bucket at the place the loops have reached
Leaf == pIn' = Append(pIn, [kind |-> results_keys[pk], path |-> ppath'])

NoEmit == UNCHANGED <<processed_data, pd_order, pIn>>

Walking(key, depth) ==
    /\ ppc = "walk"
    /\ pk >= 1
    /\ results_keys[pk] = key
    /\ pdepth = depth

ProcInit ==
    /\ results_keys \in ResultKeyLists
    /\ pk = 0
    /\ ppc = "walk"
    /\ pdepth = 0
    /\ prem = <<0, 0, 0, 0, 0>>
    /\ ploc = NoLocals
    /\ processed_data = EmptyDict
    /\ pd_order = <<>>
    /\ pused = 0
    /\ pIn = <<>>
    /\ pTimes = <<>>
    /\ ppath = <<NoBucket, NoBucket, NoBucket, NoBucket>>
    /\ email_content = EmptyDict
    /\ files = EmptyDict
    /\ file_writes = <<>>

\* for key, data in results.items(): the next key and the list its branch walks
EnterKey ==
    /\ ppc = "walk"
    /\ pdepth = 0
    /\ pk < Len(results_keys)
    /\ LET top == IF results_keys[pk + 1] = "trends" THEN "by_interval"
                  ELSE "by_appCode"
       IN  \E data \in Opt("aggregations", Agg(top, Room)) :
             LET n == TopBuckets(data, top).len IN
             /\ prem' = [prem EXCEPT ![1] = n]
             /\ pdepth' = IF n > 0 THEN 1 ELSE 0
             /\ pused' = pused + n
    /\ pk' = pk + 1
    /\ UNCHANGED <<results_keys, ppc, ploc, processed_data, pd_order, pIn, pTimes,
                   ppath, email_content, files, file_writes>>
    /\ UNCHANGED notProc

\* lines 33-35: a bucket of by_appCode
P1P2_App ==
    /\ Walking("p1_p2_vulnerabilities", 1)
    /\ \E k \in Opt("key", PApps), c \in Agg("by_affectedItemType", Room) :
         LET bucket == k @@ c IN
         IF "key" \notin DOMAIN bucket THEN Raise
         ELSE /\ ploc' = [ploc EXCEPT !.app_code = bucket["key"]]
              /\ Visit(1, bucket, BucketsOf(bucket, "by_affectedItemType").len)
              /\ NoEmit
              /\ UNCHANGED <<results_keys, pk, ppc, pTimes>>
    /\ UNCHANGED <<email_content, files, file_writes>>
    /\ UNCHANGED notProc

\* lines 35-37: a bucket of by_affectedItemType
P1P2_ItemType ==
    /\ Walking("p1_p2_vulnerabilities", 2)
    /\ \E k \in Opt("key", PTypes), c \in Agg("by_time", Room) :
         LET item_type == k @@ c IN
         IF "key" \notin DOMAIN item_type THEN Raise
         ELSE /\ ploc' = [ploc EXCEPT !.item_type_key = item_type["key"]]
              /\ Visit(2, item_type, BucketsOf(item_type, "by_time").len)
              /\ NoEmit
              /\ UNCHANGED <<results_keys, pk, ppc, pTimes>>
    /\ UNCHANGED <<email_content, files, file_writes>>
    /\ UNCHANGED notProc

\* the number of issue-name buckets the input holds under `count` of a time bucket
IssueNamesUnder(time_bucket, count) ==
    IF /\ count \in DOMAIN time_bucket
       /\ "issue_names" \in DOMAIN time_bucket[count]
       /\ "buckets" \in DOMAIN time_bucket[count]["issue_names"]
    THEN time_bucket[count]["issue_names"]["buckets"].len
    ELSE 0

\* lines 37-40: a bucket of by_time, with the aggregations p1_count and p2_count
\* that fetch_data.py asks for
P1P2_Time ==
    /\ Walking("p1_p2_vulnerabilities", 3)
    /\ \E k \in Opt("key_as_string", PDates), u \in UniqueIssuesPool,
          p1 \in Opt("p1_count", {[issue_names |-> [buckets |-> ListOf(1)]]}),
          p2 \in Opt("p2_count", Agg("issue_names", Room)) :
         LET time_bucket == k @@ u @@ p1 @@ p2 IN
         IF "key_as_string" \notin DOMAIN time_bucket THEN Raise
         ELSE /\ ploc' = [ploc EXCEPT !.date = time_bucket["key_as_string"],
                                      !.unique_issues = UniqueIssues(time_bucket)]
              /\ Visit(3, time_bucket, IssueBuckets(time_bucket).len)
              /\ pTimes' = Append(pTimes,
                     [bucket |-> Seen(time_bucket),
                      p1 |-> IssueNamesUnder(time_bucket, "p1_count"),
                      p2 |-> IssueNamesUnder(time_bucket, "p2_count")])
              /\ NoEmit
              /\ UNCHANGED <<results_keys, pk, ppc>>
    /\ UNCHANGED <<email_content, files, file_writes>>
    /\ UNCHANGED notProc

\* lines 40-45: a bucket of issue_names under p2_count
P1P2_Issue ==
    /\ Walking("p1_p2_vulnerabilities", 4)
    /\ \E issue \in Opt("key", PIssues) :
         IF "key" \notin DOMAIN issue THEN Raise
         ELSE /\ Visit(4, issue, 0)
              /\ Leaf
              /\ Emit(ploc.app_code, ploc.item_type_key,
                      [date |-> ploc.date, unique_issues |-> ploc.unique_issues,
                       issue_name |-> issue["key"]])
              /\ UNCHANGED <<results_keys, pk, ppc, ploc, pTimes>>
    /\ UNCHANGED <<email_content, files, file_writes>>
    /\ UNCHANGED notProc

\* lines 47-49: a bucket of by_appCode
Crypto_App ==
    /\ Walking("cryptography_tss_opendata", 1)
    /\ \E k \in Opt("key", PApps), c \in Agg("by_issueType", Room) :
         LET bucket == k @@ c IN
         IF "key" \notin DOMAIN bucket THEN Raise
         ELSE /\ ploc' = [ploc EXCEPT !.app_code = bucket["key"]]
              /\ Visit(1, bucket, BucketsOf(bucket, "by_issueType").len)
              /\ NoEmit
              /\ UNCHANGED <<results_keys, pk, ppc, pTimes>>
    /\ UNCHANGED <<email_content, files, file_writes>>
    /\ UNCHANGED notProc

\* lines 49-51: a bucket of by_issueType
Crypto_IssueType ==
    /\ Walking("cryptography_tss_opendata", 2)
    /\ \E k \in Opt("key", PTypes), c \in Agg("by_time", Room) :
         LET issue_type == k @@ c IN
         IF "key" \notin DOMAIN issue_type THEN Raise
         ELSE /\ ploc' = [ploc EXCEPT !.item_type_key = issue_type["key"]]
              /\ Visit(2, issue_type, BucketsOf(issue_type, "by_time").len)
              /\ NoEmit
              /\ UNCHANGED <<results_keys, pk, ppc, pTimes>>
    /\ UNCHANGED <<email_content, files, file_writes>>
    /\ UNCHANGED notProc

\* lines 51-57: a bucket of by_time
Crypto_Time ==
    /\ Walking("cryptography_tss_opendata", 3)
    /\ \E k \in Opt("key_as_string", PDates), u \in UniqueIssuesPool :
         LET time_bucket == k @@ u IN
         IF "key_as_string" \notin DOMAIN time_bucket THEN Raise
         ELSE /\ ploc' = [ploc EXCEPT !.date = time_bucket["key_as_string"],
                                      !.unique_issues = UniqueIssues(time_bucket)]
              /\ Visit(3, time_bucket, 0)
              /\ Leaf
              /\ Emit(ploc.app_code, ploc.item_type_key,
                      [date |-> ploc'.date, unique_issues |-> ploc'.unique_issues])
              /\ UNCHANGED <<results_keys, pk, ppc, pTimes>>
    /\ UNCHANGED <<email_content, files, file_writes>>
    /\ UNCHANGED notProc

\* lines 59-61: a bucket of by_interval
Trends_Interval ==
    /\ Walking("trends", 1)
    /\ \E k \in Opt("key_as_string", PDates), c \in Agg("by_appCode", Room) :
         LET interval == k @@ c IN
         IF "key_as_string" \notin DOMAIN interval THEN Raise
         ELSE /\ ploc' = [ploc EXCEPT !.date = interval["key_as_string"]]
              /\ Visit(1, interval, BucketsOf(interval, "by_appCode").len)
              /\ NoEmit
              /\ UNCHANGED <<results_keys, pk, ppc, pTimes>>
    /\ UNCHANGED <<email_content, files, file_writes>>
    /\ UNCHANGED notProc

\* lines 61-63: a bucket of by_appCode
Trends_App ==
    /\ Walking("trends", 2)
    /\ \E k \in Opt("key", PApps), c \in Agg("by_affectedItemType", Room) :
         LET app_code_bucket == k @@ c IN
         IF "key" \notin DOMAIN app_code_bucket THEN Raise
         ELSE /\ ploc' = [ploc EXCEPT !.app_code = app_code_bucket["key"]]
              /\ Visit(2, app_code_bucket,
                       BucketsOf(app_code_bucket, "by_affectedItemType").len)
              /\ NoEmit
              /\ UNCHANGED <<results_keys, pk, ppc, pTimes>>
    /\ UNCHANGED <<email_content, files, file_writes>>
    /\ UNCHANGED notProc

\* lines 63-69: a bucket of by_affectedItemType
Trends_ItemType ==
    /\ Walking("trends", 3)
    /\ \E k \in Opt("key", PTypes), u \in UniqueIssuesPool :
         LET item_type == k @@ u IN
         IF "key" \notin DOMAIN item_type THEN Raise
         ELSE /\ ploc' = [ploc EXCEPT !.item_type_key = item_type["key"],
                                      !.unique_issues = UniqueIssues(item_type)]
              /\ Visit(3, item_type, 0)
              /\ Leaf
              /\ Emit(ploc.app_code, ploc'.item_type_key,
                      [date |-> ploc.date, unique_issues |-> ploc'.unique_issues])
              /\ UNCHANGED <<results_keys, pk, ppc, pTimes>>
    /\ UNCHANGED <<email_content, files, file_writes>>
    /\ UNCHANGED notProc

\* line 70: return processed_data
ProcessReturn ==
    /\ ppc = "walk"
    /\ pdepth = 0
    /\ pk = Len(results_keys)
    /\ ppc' = "returned"
    /\ UNCHANGED <<results_keys, pk, pdepth, prem, ploc, processed_data, pd_order,
                   pused, pIn, pTimes, ppath, email_content, files, file_writes>>
    /\ UNCHANGED notProc

----------------------------------------------------------------------------
(* generate_email_content, as test_email_generation.py calls it on the     *)
(* mapping process_data returned.  A body is kept as the values that are   *)
(* formatted into it, not as text.                                         *)

\* email_template.txt: missing, empty, a template of the placeholders the code
\* fills, or a template with a placeholder the code does not fill
Templates == {"missing", "empty", "placeholders", "unknown_placeholder"}

\* `sub in item_type`, for the item types of the model
Contains(sub, item_type) ==
    \/ sub = item_type
    \/ sub = "Vulnerabilities" /\ item_type = "Windows Server Vulnerabilities"

\* the branch of the if/elif chain of lines 111-121 that an item type takes
Counter(item_type) ==
    IF Contains("Vulnerabilities", item_type) THEN "vulnerability_count"
    ELSE IF Contains("Cryptography", item_type) THEN "crypto_count"
    ELSE IF Contains("TSS", item_type) THEN "tss_count"
    ELSE IF Contains("Open Data", item_type) THEN "opendata_count"
    ELSE "none"

RECURSIVE CountOf(_, _, _)
\* the sum of len(records) over the item types of T that add to `counter`
CountOf(data, T, counter) ==
    IF T = {} THEN 0
    ELSE LET t == CHOOSE x \in T : TRUE IN
         (IF Counter(t) = counter THEN Len(data[t]) ELSE 0)
            + CountOf(data, T \ {t}, counter)

\* the issue names of the records that have one
NamesOf(records) ==
    LET named == SelectSeq(records, LAMBDA r : "issue_name" \in DOMAIN r)
    IN  [i \in 1..Len(named) |-> named[i].issue_name]

\* lines 103-132: template.format(...)
TemplateBody(app_code, data) ==
    [app_code |-> app_code,
     vulnerability_count |-> CountOf(data, DOMAIN data, "vulnerability_count"),
     vulnerability_list |->
        [t \in {x \in DOMAIN data : Counter(x) = "vulnerability_count"} |->
            NamesOf(data[t])],
     crypto_count |-> CountOf(data, DOMAIN data, "crypto_count"),
     tss_count |-> CountOf(data, DOMAIN data, "tss_count"),
     opendata_count |-> CountOf(data, DOMAIN data, "opendata_count"),
     contact_email |-> "feyi.sodipo@rbc.com"]

\* lines 135-145: the default format, one section per item type
DefaultBody(app_code, data) ==
    [app_code |-> app_code,
     sections |->
        [t \in DOMAIN data |->
            [count |-> Len(data[t]),
             rows |-> IF t = "Windows Server Vulnerabilities"
                      THEN [i \in 1..Len(data[t]) |->
                               GetOr(data[t][i], "issue_name", "Unknown")]
                      ELSE <<>>]]]

\* `if template:` an empty template is falsy, as is the "" of a missing file
EmailBody(template, app_code, data) ==
    IF template = "placeholders" THEN TemplateBody(app_code, data)
    ELSE DefaultBody(app_code, data)

\* one file name for every app code
EmailFile_Shared(app_code) == "email.txt"

\* f'{app_code}_email.txt'
EmailFile(app_code) == app_code \o "_email.txt"

\* the files after the first n passes of the loop of lines 100-151
FilesAfter(template, n) ==
    [f \in {EmailFile(pd_order[i]) : i \in 1..n} |->
        LET last == CHOOSE i \in 1..n :
                        /\ EmailFile(pd_order[i]) = f
                        /\ \A j \in (i + 1)..n : EmailFile(pd_order[j]) # f
        IN  EmailBody(template, pd_order[last], processed_data[pd_order[last]])]

\* the records process_data builds
EmailRecords ==
    {[date |-> "2025-02-21", unique_issues |-> 5],
     [date |-> "2025-02-21", unique_issues |-> 5, issue_name |-> "CVE-2023-12345"]}

\* the mappings of one app code: item type -> records
EmailData ==
    UNION {[T -> SeqsUpTo(EmailRecords, MaxRecords)] : T \in SUBSET PTypes}

\* the app codes of a mapping, in its order
AppOrders == {o \in SeqsUpTo(PApps, Cardinality(PApps)) :
                 \A i, j \in 1..Len(o) : i # j => o[i] # o[j]}

\* generate_email_content is called with a mapping
EmailInit ==
    /\ results_keys = <<>>
    /\ pk = 0
    /\ ppc = "returned"
    /\ pdepth = 0
    /\ prem = <<0, 0, 0, 0, 0>>
    /\ ploc = NoLocals
    /\ pd_order \in AppOrders
    /\ processed_data \in [Range(pd_order) -> EmailData]
    /\ pused = 0
    /\ pIn = <<>>
    /\ pTimes = <<>>
    /\ ppath = <<NoBucket, NoBucket, NoBucket, NoBucket>>
    /\ email_content = EmptyDict
    /\ files = EmptyDict
    /\ file_writes = <<>>

\* generate_email_content(processed_data, output_dir): format() raises KeyError on
\* a placeholder it is not given, and open() or write() may raise at any pass
GenerateEmail ==
    /\ ppc = "returned"
    /\ \E template \in Templates, failAt \in 0..Len(pd_order) :
         IF template = "unknown_placeholder" /\ pd_order # <<>>
         THEN /\ ppc' = "email_raised"
              /\ UNCHANGED <<email_content, files, file_writes>>
         ELSE IF failAt > 0
         THEN /\ ppc' = "email_raised"
              /\ files' = FilesAfter(template, failAt - 1)
              /\ file_writes' = [i \in 1..(failAt - 1) |-> EmailFile(pd_order[i])]
              /\ UNCHANGED email_content
         ELSE /\ ppc' = "emailed"
              /\ email_content' =
                    [a \in Range(pd_order) |-> EmailBody(template, a, processed_data[a])]
              /\ files' = FilesAfter(template, Len(pd_order))
              /\ file_writes' = [i \in 1..Len(pd_order) |-> EmailFile(pd_order[i])]
    /\ UNCHANGED <<results_keys, pk, pdepth, prem, ploc, processed_data, pd_order,
                   pused, pIn, pTimes, ppath>>
    /\ UNCHANGED notProc

ProcNext ==
    \/ EnterKey
    \/ P1P2_App \/ P1P2_ItemType \/ P1P2_Time \/ P1P2_Issue
    \/ Crypto_App \/ Crypto_IssueType \/ Crypto_Time
    \/ Trends_Interval \/ Trends_App \/ Trends_ItemType
    \/ ProcessReturn

\* a call of process_data, the other scripts idle
ProcStart == ProcInit /\ IipmIdle /\ EsIdle /\ CompIdle /\ RolesIdle /\ NewIdle
    /\ PipeIdle /\ GateIdle

SpecProc == ProcStart /\ [][ProcNext]_vars

----------------------------------------------------------------------------
(* C2: process_data returns a mapping without raising, whatever field of   *)
(* an aggregation result or of a bucket is absent, a bucket's 'key' or     *)
(* 'key_as_string' included.                                               *)
C2_NeverRaises == ppc # "raised"

\* what the code does keep: the .get() chains default, so only a bucket that
\* the walk enters can raise, and a walk that visits no bucket returns
NoBucketNoRaise == (ppc = "raised") => pused > 0

----------------------------------------------------------------------------
\* processed_data[a][t], [] when a key is absent
ListAt(a, t) == GetOr(GetOr(processed_data, a, EmptyDict), t, <<>>)

\* the innermost buckets of `kind` the input held under app code a and type t,
\* in bucket order; place names the depths of the app code and type buckets
LeavesOf(kind, appAt, typeAt, a, t) ==
    SelectSeq(pIn, LAMBDA e : /\ e.kind = kind
                              /\ e.path[appAt].key = a
                              /\ e.path[typeAt].key = t)

(* C6: for results that hold cryptography_tss_opendata only, the list      *)
(* processed_data[appCode][issueType] is, in bucket order, one record      *)
(* {date: key_as_string, unique_issues: unique_issues.value or 0} per      *)
(* by_time bucket under that appCode bucket and that issueType bucket, and *)
(* no other key holds a record.                                            *)
C6_CryptoFlattening ==
    (results_keys = <<"cryptography_tss_opendata">>) =>
        /\ DOMAIN processed_data \subseteq PApps
        /\ \A a \in DOMAIN processed_data : DOMAIN processed_data[a] \subseteq PTypes
        /\ \A a \in PApps, t \in PTypes :
              LET leaves == LeavesOf("cryptography_tss_opendata", 1, 2, a, t) IN
              ListAt(a, t) = [i \in 1..Len(leaves) |->
                                 [date |-> leaves[i].path[3].key,
                                  unique_issues |-> leaves[i].path[3].unique_issues]]

\* two time buckets under one appCode and issueType, the first without a
\* unique_issues value, and an issueType bucket without time buckets
C6_TwoRecords ==
    /\ results_keys = <<"cryptography_tss_opendata">>
    /\ ppc = "returned"
    /\ \E a \in DOMAIN processed_data :
          \E t \in DOMAIN processed_data[a] :
            /\ Len(processed_data[a][t]) = 2
            /\ processed_data[a][t][1].unique_issues = 0
            /\ processed_data[a][t][2].unique_issues = 5
            /\ processed_data[a][t][1].date # processed_data[a][t][2].date

----------------------------------------------------------------------------
\* the records of a list that carry an issue name
Named(records) == SelectSeq(records, LAMBDA r : "issue_name" \in DOMAIN r)

RECURSIVE SumP2(_)
\* the issue-name buckets the input held under p2_count, over its time buckets
SumP2(times) ==
    IF times = <<>> THEN 0 ELSE times[1].p2 + SumP2(Tail(times))

(* C7: process_data emits one record {date, unique_issues, issue_name} per *)
(* issue-name bucket under p2_count of each (appCode, affectedItemType,    *)
(* day) time bucket, in bucket order; issue names under p1_count give no   *)
(* record, and a time bucket without a P2 issue-name bucket gives none.    *)
C7_P2Flattening ==
    /\ \A a \in PApps, t \in PTypes :
          LET leaves == LeavesOf("p1_p2_vulnerabilities", 1, 2, a, t) IN
          Named(ListAt(a, t)) = [i \in 1..Len(leaves) |->
                                    [date |-> leaves[i].path[3].key,
                                     unique_issues |-> leaves[i].path[3].unique_issues,
                                     issue_name |-> leaves[i].path[4].key]]
    /\ (ppc = "returned") =>
          Cardinality({i \in 1..Len(pIn) : pIn[i].kind = "p1_p2_vulnerabilities"})
              = SumP2(pTimes)

\* a time bucket with a positive unique_issues and an issue name under
\* p1_count but none under p2_count, next to a time bucket with a P2 issue
C7_P1OnlyBucket ==
    /\ ppc = "returned"
    /\ \E i \in 1..Len(pTimes) :
          /\ pTimes[i].p2 = 0
          /\ pTimes[i].p1 > 0
          /\ pTimes[i].bucket.unique_issues > 0
    /\ \E a \in DOMAIN processed_data :
          \E t \in DOMAIN processed_data[a] : Named(processed_data[a][t]) # <<>>

EmailNext == GenerateEmail

\* a call of generate_email_content, the other scripts idle
EmailStart == EmailInit /\ IipmIdle /\ EsIdle /\ CompIdle /\ RolesIdle /\ NewIdle
    /\ PipeIdle /\ GateIdle

SpecEmail == EmailStart /\ [][EmailNext]_vars

----------------------------------------------------------------------------
(* C10: generate_email_content returns a mapping whose keys are the app    *)
(* codes of processed_data, and writes one '<appCode>_email.txt' file per  *)
(* app code, whose content is the body returned for that app code.         *)
C10_OneEmailPerAppCode ==
    (ppc = "emailed") =>
        /\ DOMAIN email_content = DOMAIN processed_data
        /\ DOMAIN files = {a \o "_email.txt" : a \in DOMAIN processed_data}
        /\ Cardinality(DOMAIN files) = Cardinality(DOMAIN processed_data)
        /\ Len(file_writes) = Cardinality(DOMAIN processed_data)
        /\ \A a \in DOMAIN processed_data :
              files[a \o "_email.txt"] = email_content[a]

\* two app codes with different bodies
C10_TwoEmails ==
    /\ ppc = "emailed"
    /\ Cardinality(DOMAIN processed_data) = 2
    /\ \A a, b \in DOMAIN processed_data :
          a # b => /\ email_content[a] # email_content[b]
                   /\ processed_data[a] # processed_data[b]

----------------------------------------------------------------------------
(* elasticsearch_script.py: main reads the input file, transforms its      *)
(* records, and for every record updates the documents that carry its      *)
(* appCode or creates one.  A document that a run indexes is seen by a     *)
(* search after the next refresh of the index, which may come at any time; *)
(* a later run of the script starts after it.                              *)

\* the records of an input file: appCode absent, empty or given; name null or given
RawRecords ==
    {[name |-> "n1"],
     [appCode |-> "", name |-> "n1"],
     [appCode |-> "ATU0", name |-> "n1"],
     [appCode |-> "ATU0", name |-> None],
     [appCode |-> "atu0", name |-> "n1"]}

\* compliance records of two applications
ComplianceATU0 == [appCode |-> "ATU0", affectedItemName |-> "srv1"]
ComplianceBXK0 == [appCode |-> "BXK0", affectedItemName |-> "srv1"]

\* the index before the first run: empty, or holding compliance records
EsIndices ==
    {[i \in 1..Len(srcs) |-> [_id |-> i, _source |-> srcs[i]]] :
        srcs \in {<<>>, <<ComplianceATU0>>, <<ComplianceBXK0, ComplianceATU0>>,
                  <<ComplianceATU0, ComplianceATU0>>}}

\* transform_roles, for one record: every role is flattened to the list of the
\* employeeIds of its employees
transform_roles(record) ==
    [appCode |-> GetOr(record, "appCode", "N/A"),
     name |-> GetOr(record, "name", "N/A"),
     lineOfBusiness |-> GetOr(record, "lineOfBusiness", "N/A"),
     contactPerson |-> GetOr(record, "contactPerson", "N/A"),
     contactType |-> GetOr(record, "contactType", "N/A"),
     contactMechanism |-> GetOr(record, "contactMechanism", "N/A"),
     roles |-> LET roles == GetOr(record, "roles", EmptyDict)
               IN  [role \in DOMAIN roles |->
                      [i \in 1..Len(roles[role]) |-> roles[role][i].employeeId]]]

\* datetime.now().isoformat() of a run
Stamp(run) == IF run = 1 THEN "T1" ELSE "T2"

\* the lowercase filter of the standard analyzer
Lower(s) ==
    CASE s = "ATU0" -> "atu0"
      [] s = "BXK0" -> "bxk0"
      [] OTHER -> s

\* the terms the standard analyzer indexes for a text field
Tokens(s) == IF s = "N/A" THEN {"n", "a"} ELSE {Lower(s)}

\* {"term": {"<field>.keyword": value}}: the stored string is the value
KeywordTerm(source, field, value) ==
    field \in DOMAIN source /\ source[field] = value

\* {"term": {"<field>": value}} on a text field: the value is one of the terms
TextTerm(source, field, value) ==
    field \in DOMAIN source /\ value \in Tokens(source[field])

\* a query that asks for the compliance records only
Matches_ComplianceOnly(source, appCode) ==
    /\ KeywordTerm(source, "appCode", appCode)
    /\ ~KeywordTerm(source, "documentType", "application_metadata")

\* search_query: a bool query of three should clauses, one of which must match
Matches(source, appCode) ==
    \/ KeywordTerm(source, "appCode", appCode)
    \/ TextTerm(source, "appCode", appCode)
    \/ /\ KeywordTerm(source, "appCode", appCode)
       /\ ~KeywordTerm(source, "documentType", "application_metadata")

\* search_response['hits']['hits'] over the documents a search sees
Search(visible, appCode) ==
    SelectSeq(visible, LAMBDA d : Matches(d._source, appCode))

\* {k: v for k, v in d.items() if v is not None}; roles is a dict
DropNone(d) ==
    [k \in {x \in DOMAIN d : x = "roles" \/ d[x] # None} |-> d[k]]

\* the fields main takes from a record into a document
Metadata(appcode_detail, stamp) ==
    [name |-> Get(appcode_detail, "name"),
     lineOfBusiness |-> Get(appcode_detail, "lineOfBusiness"),
     contactPerson |-> Get(appcode_detail, "contactPerson"),
     contactType |-> Get(appcode_detail, "contactType"),
     contactMechanism |-> Get(appcode_detail, "contactMechanism"),
     roles |-> GetOr(appcode_detail, "roles", EmptyDict),
     timestamp |-> stamp]

\* lines 686-703
updated_source(existing_source, appcode_detail, stamp) ==
    DropNone(DictUpdate(existing_source, Metadata(appcode_detail, stamp)))

\* lines 738-751
new_document(appCode, appcode_detail, stamp) ==
    DropNone(DictUpdate([appCode |-> appCode],
                        DictUpdate(Metadata(appcode_detail, stamp),
                                   [documentType |-> "application_metadata"])))

\* a loop over the hits that ends at the first update that fails
Attempted_UntilFailure(hits, oks) ==
    LET failed == {i \in 1..Len(hits) : ~oks[i]}
        last == IF failed = {} THEN Len(hits)
                ELSE CHOOSE i \in failed : \A j \in failed : i <= j
    IN  [i \in 1..last |-> hits[i]._id]

\* lines 682-726: the ids es.update is called with; a failure goes on to the next
Attempted(hits, oks) == [i \in 1..Len(hits) |-> hits[i]._id]

RECURSIVE UpdateAll(_, _, _, _, _, _)
\* the index after the updates of hits[i..] that reach it; oks[i]: update i succeeds
UpdateAll(index, hits, oks, i, appcode_detail, stamp) ==
    IF i > Len(hits) THEN index
    ELSE UpdateAll(IF oks[i] /\ hits[i]._id \in Range(Attempted(hits, oks))
                   THEN EsUpdate(index, hits[i]._id,
                                 updated_source(hits[i]._source, appcode_detail, stamp))
                   ELSE index,
                   hits, oks, i + 1, appcode_detail, stamp)

\* the records main loops over
FinalData(records) == [i \in 1..Len(records) |-> transform_roles(records[i])]

EsInit ==
    /\ eIndex \in EsIndices
    /\ eVisible = Len(eIndex)
    /\ eData \in SeqsUpTo(RawRecords, MaxInput)
    /\ final_data = FinalData(eData)
    /\ epos = 1
    /\ epc = "loop"
    /\ erun = 1
    /\ eLast = NoRequests
    /\ success_count = 0
    /\ error_count = 0
    /\ eFirstRun = [errors |-> 0, docs |-> 0]

\* lines 586-776: one pass of the loop over final_data
ProcessRecord ==
    /\ epc = "loop"
    /\ epos <= Len(final_data)
    /\ LET appcode_detail == final_data[epos]
           appCode == Get(appcode_detail, "appCode")
           stamp == Stamp(erun)
       IN
       IF ~Truthy(appCode)
       THEN /\ error_count' = error_count + 1
            /\ eLast' = NoRequests
            /\ UNCHANGED <<eIndex, eVisible, final_data, success_count>>
       ELSE
       /\ final_data' = [final_data EXCEPT ![epos] =
                            DictUpdate(@, [timestamp |-> stamp])]
       /\ \E seen \in {eVisible, Len(eIndex)}, searched \in BOOLEAN :
            /\ eVisible' = seen
            /\ IF ~searched
               THEN /\ error_count' = error_count + 1
                    /\ eLast' = [NoRequests EXCEPT !.appCode = appCode]
                    /\ UNCHANGED <<eIndex, success_count>>
               ELSE
               LET existing_records == Search(SubSeq(eIndex, 1, seen), appCode) IN
               IF existing_records # <<>>
               THEN \E oks \in [1..Len(existing_records) -> BOOLEAN] :
                      LET ids == Attempted(existing_records, oks)
                          updated_count ==
                              Cardinality({i \in 1..Len(ids) : oks[i]})
                      IN
                      /\ eIndex' = UpdateAll(eIndex, existing_records, oks, 1,
                                             final_data'[epos], stamp)
                      /\ success_count' = success_count + updated_count
                      /\ error_count' = error_count + (Len(ids) - updated_count)
                      /\ eLast' = [appCode |-> appCode, searched |-> TRUE,
                                   hits |-> [i \in 1..Len(existing_records) |->
                                                existing_records[i]._id],
                                   updates |-> ids, indexed |-> <<>>]
               ELSE \E ok \in BOOLEAN :
                      LET doc == new_document(appCode, final_data'[epos], stamp) IN
                      /\ eIndex' = IF ok THEN EsIndex(eIndex, doc) ELSE eIndex
                      /\ success_count' = success_count + (IF ok THEN 1 ELSE 0)
                      /\ error_count' = error_count + (IF ok THEN 0 ELSE 1)
                      /\ eLast' = [appCode |-> appCode, searched |-> TRUE,
                                   hits |-> <<>>, updates |-> <<>>,
                                   indexed |-> <<doc>>]
    /\ epos' = epos + 1
    /\ UNCHANGED <<eData, epc, erun, eFirstRun>>
    /\ UNCHANGED notEs

\* lines 778-787: the summary after the last record
EsDone ==
    /\ epc = "loop"
    /\ epos > Len(final_data)
    /\ epc' = "done"
    /\ UNCHANGED <<eIndex, eVisible, eData, final_data, epos, erun, eLast,
                   success_count, error_count, eFirstRun>>
    /\ UNCHANGED notEs

\* the script runs again over the same input file, after a refresh of the index
EsNextRun ==
    /\ epc = "done"
    /\ erun = 1
    /\ erun' = erun + 1
    /\ epc' = "loop"
    /\ epos' = 1
    /\ eVisible' = Len(eIndex)
    /\ final_data' = FinalData(eData)
    /\ eLast' = NoRequests
    /\ success_count' = 0
    /\ error_count' = 0
    /\ eFirstRun' = [errors |-> error_count, docs |-> Len(eIndex)]
    /\ UNCHANGED <<eIndex, eData>>
    /\ UNCHANGED notEs

EsNext == ProcessRecord \/ EsDone \/ EsNextRun

\* a run of elasticsearch_script.py, the other scripts idle
EsStart == EsInit /\ IipmIdle /\ ProcIdle /\ CompIdle /\ RolesIdle /\ NewIdle
    /\ PipeIdle /\ GateIdle

SpecEs == EsStart /\ [][EsNext]_vars

----------------------------------------------------------------------------
(* C3: for a record with a non-empty appCode whose search succeeds: when   *)
(* the search returns a hit, es.update is attempted once for every hit     *)
(* returned and es.index is not called; when it returns none, es.index is  *)
(* called once, with a document of documentType 'application_metadata',    *)
(* and es.update is not called.                                            *)
C3_UpsertOrCreate ==
    eLast.searched =>
        IF eLast.hits # <<>>
        THEN /\ eLast.updates = eLast.hits
             /\ eLast.indexed = <<>>
        ELSE /\ eLast.updates = <<>>
             /\ Len(eLast.indexed) = 1
             /\ eLast.indexed[1].documentType = "application_metadata"
             /\ eLast.indexed[1].appCode = eLast.appCode

\* a record that found two documents, the first of which failed to update, in an
\* index where an earlier record created a document
C3_TwoHits ==
    /\ eLast.searched
    /\ Len(eLast.hits) = 2
    /\ \E i \in 1..Len(eIndex) :
          /\ eIndex[i]._id = eLast.hits[1]
          /\ "timestamp" \notin DOMAIN eIndex[i]._source
    /\ \E i \in 1..Len(eIndex) :
          /\ eIndex[i]._id = eLast.hits[2]
          /\ "timestamp" \in DOMAIN eIndex[i]._source
    /\ \E i \in 1..Len(eIndex) :
          KeywordTerm(eIndex[i]._source, "documentType", "application_metadata")

----------------------------------------------------------------------------
C19_NoAppCodeNoCall ==
    [][(/\ epc = "loop"
        /\ epos <= Len(eData)
        /\ epos' = epos + 1
        /\ ~Truthy(Get(eData[epos], "appCode")))
         => (/\ error_count' = error_count + 1
             /\ eLast' = NoRequests
             /\ eIndex' = eIndex)]_vars

\* what the code does keep: a record whose appCode is there and empty is counted
\* as an error and causes no call
EmptyAppCodeNoCall ==
    [][(/\ epc = "loop"
        /\ epos <= Len(eData)
        /\ epos' = epos + 1
        /\ "appCode" \in DOMAIN eData[epos]
        /\ ~Truthy(eData[epos].appCode))
         => (/\ error_count' = error_count + 1
             /\ eLast' = NoRequests
             /\ eIndex' = eIndex)]_vars

----------------------------------------------------------------------------
(* compliance-project/files/elasticsearch_script.py: main builds a lookup  *)
(* from the IIPM index and enrich_and_update_compliance_data sends every   *)
(* compliance item to the compliance index, enriched from the lookup.      *)

\* documents of the IIPM index
IipmPayments == [appCode |-> "ATU0", name |-> "Payments",
                 roles |-> [IT_CUSTODIAN |-> [id |-> "e1"]]]
IipmRenamed == [appCode |-> "ATU0", name |-> "Payments 2"]
IipmUnassigned == [appCode |-> "N/A", name |-> "Unassigned",
                   roles |-> [IT_EXECUTIVE |-> [id |-> "e2"]]]
IipmNoSelection == [appCode |-> "No App Code Selected", name |-> "Selected"]
IipmNoCode == [name |-> "Orphan"]

\* response['hits']['hits'] of the search of fetch_iipm_data, when there are hits
IipmHits ==
    {<<IipmPayments>>, <<IipmPayments, IipmRenamed>>,
     <<IipmUnassigned, IipmPayments>>, <<IipmNoSelection, IipmNoCode>>}

\* the file at json_file_path: not there, not JSON, not readable, or a JSON list
JsonFiles == {"missing", "invalid", "unreadable", "list"}

\* load_json_file returns None for a missing file and for one that is not JSON;
\* any other error of open leaves main as an exception
load_json_file(file) ==
    CASE file \in {"missing", "invalid"} -> "None"
      [] file = "unreadable" -> "raised"
      [] OTHER -> "data"

\* None, as fetch_iipm_data returns it
NoResponse == [is_none |-> TRUE, hits |-> <<>>]

\* a fetch that hands back the response without looking at its hits
fetch_iipm_data_AnyResponse(raised, hits) ==
    IF raised THEN NoResponse ELSE [is_none |-> FALSE, hits |-> hits]

\* fetch_iipm_data: the response, or None when the search raised or had no hit
fetch_iipm_data(raised, hits) ==
    IF raised \/ hits = <<>> THEN NoResponse ELSE [is_none |-> FALSE, hits |-> hits]

\* lines 59-67: the entry of one hit
LookupEntry(source) ==
    [name |-> Get(source, "name"),
     lineOfBusiness |-> Get(source, "lineOfBusiness"),
     contactPerson |-> Get(source, "contactPerson"),
     contactType |-> Get(source, "contactType"),
     contactMechanism |-> Get(source, "contactMechanism"),
     appCustodianId |->
        Get(GetOr(GetOr(source, "roles", EmptyDict), "IT_CUSTODIAN", EmptyDict), "id"),
     app_custodian_name |-> Get(source, "app_custodian_name")]

\* lines 69-86
UnknownEntry ==
    [name |-> "Unknown", lineOfBusiness |-> "Unknown", contactPerson |-> "Unknown",
     contactType |-> "Unknown", contactMechanism |-> "Unknown",
     appCustodianId |-> "Unknown", app_custodian_name |-> "Unknown"]

SpecialKeys == {"Multiple App Codes Selected", "No App Code Selected"}

\* create_iipm_lookup: a later hit of an appCode replaces an earlier one, and the
\* two special keys are set last
create_iipm_lookup(hits) ==
    LET coded == {i \in 1..Len(hits) : Truthy(Get(hits[i], "appCode"))}
        keys == {hits[i].appCode : i \in coded} \cup SpecialKeys
    IN  [k \in keys |->
            IF k \in SpecialKeys THEN UnknownEntry
            ELSE LET last == CHOOSE i \in coded :
                                /\ hits[i].appCode = k
                                /\ \A j \in coded : hits[j].appCode = k => j <= i
                 IN  LookupEntry(hits[last])]

\* an 'iipm' field that an item brings with it
StaleEntry == [UnknownEntry EXCEPT !.name = "Old"]

\* the items of a compliance file
ComplianceItems ==
    {[complianceId |-> "c1", appCode |-> "ATU0", severity |-> "High"],
     [complianceId |-> "c2", appCode |-> "ZZZ9", severity |-> "NaN"],
     [complianceId |-> "c1", severity |-> NaN],
     [complianceId |-> "c2", appCode |-> "No App Code Selected", severity |-> "Low"],
     [appCode |-> "ATU0", severity |-> "High"],
     [complianceId |-> "", appCode |-> "ATU0", severity |-> "High"],
     [complianceId |-> "c1", appCode |-> "ZZZ9", severity |-> "High",
      iipm |-> StaleEntry]}

\* value.lower() == "nan"
IsNanString(v) == v \in {"nan", "NaN", "NAN", "Nan"}

\* clean_data of the compliance script: a NaN float or a "nan" string becomes
\* None; a dict value (the 'iipm' of an item) is neither
clean_item(item) ==
    [k \in DOMAIN item |->
        IF k = "iipm" THEN item[k]
        ELSE IF item[k] = NaN \/ IsNanString(item[k]) THEN None
        ELSE item[k]]

\* a write that always adds a document
EsUpsert_Append(index, id, doc) == Append(index, [_id |-> id, _source |-> doc])

\* es.update(index, id, body={"doc": doc, "doc_as_upsert": True})
EsUpsert(index, id, doc) ==
    IF \E i \in 1..Len(index) : index[i]._id = id
    THEN EsUpdate(index, id, doc)
    ELSE Append(index, [_id |-> id, _source |-> doc])

\* an enrichment that needs the item to carry the appCode
Enriched_OwnCode(item, lookup) ==
    "appCode" \in DOMAIN item /\ Truthy(item["appCode"]) /\ item["appCode"] \in DOMAIN lookup

\* line 146 and line 156: app_code is read with a default, before clean_data
Enriched(item, lookup) ==
    LET app_code == GetOr(item, "appCode", "N/A")
    IN  Truthy(app_code) /\ app_code \in DOMAIN lookup

\* the exception of a failed es.update leaves the loop
AfterUpdate_Propagates(ok) == IF ok THEN "loop" ELSE "exit1"

\* lines 159-170: the try around es.update keeps the loop going
AfterUpdate(ok) == "loop"

\* compliance_data is the list the file holds, if it can be loaded
CompInit ==
    /\ cIndex = <<>>
    /\ iipm_lookup = EmptyDict
    /\ compliance_data \in SeqsUpTo(ComplianceItems, MaxInput)
    /\ cpos = 1
    /\ cpc = "load"
    /\ crun = 1
    /\ cLast = NothingSent
    /\ cWrites = <<>>
    /\ cOks = <<>>
    /\ cSeen = NothingSeen

\* main, lines 181-184
CompLoad ==
    /\ cpc = "load"
    /\ \E file \in JsonFiles :
        /\ cSeen' = [cSeen EXCEPT !.file = file]
        /\ cpc' = IF load_json_file(file) = "data" THEN "connect" ELSE "exit1"
    /\ UNCHANGED <<cIndex, iipm_lookup, compliance_data, cpos, crun, cLast, cWrites,
                   cOks>>
    /\ UNCHANGED notComp

\* main, lines 186-189: initialize_elasticsearch returns None when the client
\* cannot be built
CompConnect ==
    /\ cpc = "connect"
    /\ \E ok \in BOOLEAN :
        /\ cSeen' = [cSeen EXCEPT !.client = IF ok THEN "built" ELSE "raised"]
        /\ cpc' = IF ok THEN "fetch" ELSE "exit1"
    /\ UNCHANGED <<cIndex, iipm_lookup, compliance_data, cpos, crun, cLast, cWrites,
                   cOks>>
    /\ UNCHANGED notComp

\* main, lines 191-196
CompFetch ==
    /\ cpc = "fetch"
    /\ \E raised \in BOOLEAN :
       \E hits \in IF raised THEN {<<>>} ELSE IipmHits \cup {<<>>} :
        LET response == fetch_iipm_data(raised, hits) IN
        /\ cSeen' = [cSeen EXCEPT !.search = IF raised THEN "raised" ELSE "answered",
                                  !.hits = Len(hits)]
        /\ IF response.is_none
           THEN /\ cpc' = "exit1"
                /\ UNCHANGED iipm_lookup
           ELSE /\ cpc' = "loop"
                /\ iipm_lookup' = create_iipm_lookup(response.hits)
    /\ UNCHANGED <<cIndex, compliance_data, cpos, crun, cLast, cWrites, cOks>>
    /\ UNCHANGED notComp

\* lines 144-170: one pass of the loop over compliance_data
EnrichStep ==
    /\ cpc = "loop"
    /\ cpos <= Len(compliance_data)
    /\ LET item == compliance_data[cpos]
           compliance_id == Get(item, "complianceId")
       IN
       IF ~Truthy(compliance_id)
       THEN /\ cLast' = NothingSent
            /\ UNCHANGED <<cIndex, cWrites, cOks, cpc>>
       ELSE LET stamped == DictUpdate(clean_item(item), [timestamp |-> Stamp(crun)])
                doc == IF Enriched(item, iipm_lookup)
                       THEN DictUpdate(stamped,
                               [iipm |-> iipm_lookup[GetOr(item, "appCode", "N/A")]])
                       ELSE stamped
            IN  /\ cLast' = [sent |-> TRUE, item |-> item, doc |-> doc]
                /\ cWrites' = Append(cWrites, compliance_id)
                /\ \E ok \in BOOLEAN :
                     /\ cIndex' = IF ok THEN EsUpsert(cIndex, compliance_id, doc)
                                  ELSE cIndex
                     /\ cOks' = Append(cOks, ok)
                     /\ cpc' = AfterUpdate(ok)
    /\ cpos' = cpos + 1
    /\ UNCHANGED <<iipm_lookup, compliance_data, crun, cSeen>>
    /\ UNCHANGED notComp

\* line 198
EnrichDone ==
    /\ cpc = "loop"
    /\ cpos > Len(compliance_data)
    /\ cpc' = "done"
    /\ UNCHANGED <<cIndex, iipm_lookup, compliance_data, cpos, crun, cLast, cWrites,
                   cOks, cSeen>>
    /\ UNCHANGED notComp

\* the playbook runs the script again, on the same compliance file
CompNextRun ==
    /\ cpc = "done"
    /\ crun < MaxRuns
    /\ crun' = crun + 1
    /\ cpc' = "load"
    /\ cpos' = 1
    /\ cLast' = NothingSent
    /\ cWrites' = <<>>
    /\ cOks' = <<>>
    /\ cSeen' = NothingSeen
    /\ UNCHANGED <<cIndex, iipm_lookup, compliance_data>>
    /\ UNCHANGED notComp

CompNext == CompLoad \/ CompConnect \/ CompFetch \/ EnrichStep \/ EnrichDone
              \/ CompNextRun

\* a run of the compliance script, the other scripts idle
CompStart == CompInit /\ IipmIdle /\ ProcIdle /\ EsIdle /\ RolesIdle /\ NewIdle
    /\ PipeIdle /\ GateIdle

SpecComp == CompStart /\ [][CompNext]_vars

----------------------------------------------------------------------------
\* the items the loop has passed that carry a complianceId
PassedWithId ==
    SelectSeq(SubSeq(compliance_data, 1, cpos - 1),
              LAMBDA item : "complianceId" \in DOMAIN item /\ item["complianceId"] # "")

(* C5: after any number of runs the compliance index holds at most one     *)
(* document per complianceId, every write being an upsert under the        *)
(* complianceId, and an item with a missing or empty complianceId causes   *)
(* no write.                                                               *)
C5_OneDocPerComplianceId ==
    /\ \A i, j \in 1..Len(cIndex) :
          /\ i # j => cIndex[i]._id # cIndex[j]._id
          /\ i # j => cIndex[i]._source.complianceId # cIndex[j]._source.complianceId
    /\ \A i \in 1..Len(cIndex) : cIndex[i]._source.complianceId = cIndex[i]._id
    /\ Len(cWrites) = Len(PassedWithId)
    /\ \A i \in 1..Len(cWrites) : cWrites[i] = PassedWithId[i].complianceId

\* a second run has updated the document that the first run created for c1: the
\* document keeps the 'iipm' of the first run, which the second did not send;
\* the run has also passed an item without a complianceId
C5_UpsertedTwice ==
    /\ crun = 2
    /\ cpc = "done"
    /\ Len(cIndex) = 1
    /\ cIndex[1]._id = "c1"
    /\ "iipm" \in DOMAIN cIndex[1]._source
    /\ "iipm" \notin DOMAIN cLast.doc
    /\ cIndex[1]._source.timestamp = Stamp(2)
    /\ Len(compliance_data) = 2
    /\ cWrites = <<"c1">>

----------------------------------------------------------------------------
\* the two special keys map to the entry of 'Unknown's
SpecialsUnknown ==
    cpc \in {"loop", "done"} => \A k \in SpecialKeys : iipm_lookup[k] = UnknownEntry

(* C8 as stated: an item that is written carries an 'iipm' field if and    *)
(* only if its appCode is a key of the lookup, and the field is then the   *)
(* entry of the lookup; the two special keys map to 'Unknown' entries.     *)
C8_IipmIffAppCodeInLookup ==
    /\ SpecialsUnknown
    /\ cLast.sent =>
          LET doc == cLast.doc
              keyed == "appCode" \in DOMAIN doc /\ doc.appCode \in DOMAIN iipm_lookup
          IN  /\ ("iipm" \in DOMAIN doc) <=> keyed
              /\ keyed => doc.iipm = iipm_lookup[doc.appCode]

(* C8, amended: an item that is written carries the entry of the lookup    *)
(* when its appCode, 'N/A' for an item without one, is a non-empty key of  *)
(* the lookup; otherwise it carries the 'iipm' field the input item had,   *)
(* if it had one; the two special keys map to 'Unknown' entries.           *)
C8_IipmFromLookupOrInput ==
    /\ SpecialsUnknown
    /\ cLast.sent =>
          LET item == cLast.item
              doc == cLast.doc
              app == IF "appCode" \in DOMAIN item THEN item.appCode ELSE "N/A"
          IN  IF app # "" /\ app \in DOMAIN iipm_lookup
              THEN "iipm" \in DOMAIN doc /\ doc.iipm = iipm_lookup[app]
              ELSE /\ ("iipm" \in DOMAIN doc) <=> ("iipm" \in DOMAIN item)
                   /\ "iipm" \in DOMAIN item => doc.iipm = item.iipm

\* an item without appCode was written with the entry of 'N/A', in a run whose
\* IIPM index holds a document under a special key
C8_EnrichedWithoutAppCode ==
    /\ cLast.sent
    /\ "appCode" \notin DOMAIN cLast.item
    /\ "iipm" \in DOMAIN cLast.doc
    /\ cLast.doc.iipm.name = "Unassigned"

----------------------------------------------------------------------------
(* C16: no es.update on the compliance index is issued unless, earlier in  *)
(* the same run, the JSON file was loaded, the Elasticsearch client was    *)
(* initialised and the IIPM search returned at least one hit; if any of    *)
(* the three fails, an IIPM index with zero hits included, the process     *)
(* exits with status 1 having written nothing.                             *)
C16_NoWriteBeforeTheGates ==
    /\ cWrites # <<>> =>
         /\ cSeen.file = "list"
         /\ cSeen.client = "built"
         /\ cSeen.search = "answered"
         /\ cSeen.hits >= 1
    /\ (\/ cSeen.file \in {"missing", "invalid", "unreadable"}
        \/ cSeen.client = "raised"
        \/ cSeen.search = "raised"
        \/ (cSeen.search = "answered" /\ cSeen.hits = 0))
         => (cpc = "exit1" /\ cWrites = <<>>)

\* a second run that found the IIPM index without a hit and left the documents
\* of the first run alone
C16_ZeroHitsExit ==
    /\ crun = 2
    /\ cpc = "exit1"
    /\ cSeen.search = "answered"
    /\ cSeen.hits = 0
    /\ Len(cIndex) >= 1
    /\ \A i \in 1..Len(cIndex) : cIndex[i]._source.timestamp = Stamp(1)

(* C17: an exception raised by es.update for one record does not stop the  *)
(* loop of enrich_and_update_compliance_data: every record of the input    *)
(* that has a complianceId receives exactly one es.update attempt, in      *)
(* input order, whatever the outcome of the attempts before it.            *)
C17_FailureDoesNotStopTheLoop ==
    /\ Len(cOks) = Len(cWrites)
    /\ cWrites # <<>> => cpc \in {"loop", "done"}
    /\ cpc = "done" =>
         LET with_id == SelectSeq(compliance_data,
                           LAMBDA item : Truthy(Get(item, "complianceId")))
         IN  cWrites = [i \in 1..Len(with_id) |-> with_id[i].complianceId]

\* the first es.update of a run raised and the second record was attempted all
\* the same
C17_AttemptAfterFailure ==
    /\ cpc = "done"
    /\ Len(cOks) = 2
    /\ ~cOks[1]
    /\ cOks[2]
    /\ Len(cIndex) = 1
    /\ cIndex[1]._id = compliance_data[2].complianceId

----------------------------------------------------------------------------
(* roles/files/process_data.py: main generates the report, then prepares   *)
(* and writes the email content, then returns the exit status.             *)

\* hits of the input file: severity given, null or absent
RoleHits ==
    {[_source |-> [severity |-> "High", appCode |-> "ATU0"]],
     [_source |-> [severity |-> None, appCode |-> "ATU0"]],
     [_source |-> [appCode |-> "BXK0"]]}

\* the JSON of the input file: 'hits' absent, or with 'hits' and 'total' or not
RoleData ==
    {EmptyDict} \cup
    {[hits |-> h @@ t] :
        h \in Opt("hits", SeqsUpTo(RoleHits, MaxHits)),
        t \in Opt("total", {EmptyDict, [value |-> 0], [value |-> 2]})}

RoleInputs ==
    {[readable |-> FALSE, data |-> EmptyDict]} \cup
    {[readable |-> TRUE, data |-> d] : d \in RoleData}

\* load_vulnerability_data: [], 0 when the file cannot be loaded
load_vulnerability_data(input) ==
    IF ~input.readable THEN [hits |-> <<>>, total |-> 0]
    ELSE LET h == GetOr(input.data, "hits", EmptyDict)
         IN  [hits |-> GetOr(h, "hits", <<>>),
              total |-> GetOr(GetOr(h, "total", EmptyDict), "value", 0)]

\* source.get('severity', '').lower() raises AttributeError on a null severity
AnalysisRaises(hits) ==
    \E i \in 1..Len(hits) : GetOr(hits[i]._source, "severity", "") = None

\* the exit status when the email step has to succeed too
ExitStatus_Emailed(ok, events) ==
    IF ok /\ "email_written" \in Range(events) THEN 0 ELSE 1

\* line 301: return 0 if success else 1
ExitStatus(ok, events) == IF ok THEN 0 ELSE 1

RolesInit ==
    /\ rpc = "start"
    /\ rInput \in RoleInputs
    /\ rArgs \in [email_template : {None, "template.txt"},
                  email_output : {None, "email.txt"}]
    /\ rTemplate \in {"missing", "empty", "text"}
    /\ success = FALSE
    /\ rContent = None
    /\ rReport = "absent"
    /\ rEmailFile = None
    /\ rEvents = <<>>
    /\ exit_status = None

\* line 288: success = generate_report(args.input, args.output); an exception of
\* the analysis is not caught, and ends the process with status 1
GenerateReport ==
    /\ rpc = "start"
    /\ LET loaded == load_vulnerability_data(rInput) IN
       IF loaded.total = 0
       THEN /\ success' = FALSE
            /\ rpc' = "reported"
            /\ rEvents' = Append(rEvents, "report_false")
            /\ UNCHANGED <<rReport, exit_status>>
       ELSE IF AnalysisRaises(loaded.hits)
       THEN /\ rpc' = "exit"
            /\ exit_status' = 1
            /\ rEvents' = Append(rEvents, "report_raised")
            /\ UNCHANGED <<success, rReport>>
       ELSE \E written \in BOOLEAN :
              /\ success' = written
              /\ rReport' = IF written THEN "written" ELSE "partial"
              /\ rpc' = "reported"
              /\ rEvents' = Append(rEvents, IF written THEN "report_true"
                                            ELSE "report_false")
              /\ UNCHANGED exit_status
    /\ UNCHANGED <<rInput, rArgs, rTemplate, rContent, rEmailFile>>
    /\ UNCHANGED notRoles

\* lines 291-292: prepare_rContent returns None when it cannot read the
\* template or the report, and the template with its placeholders replaced
PrepareEmail ==
    /\ rpc = "reported"
    /\ success /\ Truthy(rArgs.email_template) /\ Truthy(rArgs.email_output)
    /\ \E readable \in BOOLEAN :
         rContent' = IF rTemplate = "missing" \/ ~readable THEN None
                          ELSE IF rTemplate = "empty" THEN ""
                          ELSE "body"
    /\ rpc' = "prepared"
    /\ rEvents' = Append(rEvents, "email_prepared")
    /\ UNCHANGED <<rInput, rArgs, rTemplate, success, rReport, rEmailFile, exit_status>>
    /\ UNCHANGED notRoles

\* lines 293-299: the write of the email content, whose failure is caught
WriteEmail ==
    /\ rpc = "prepared"
    /\ Truthy(rContent)
    /\ \E written \in BOOLEAN :
         /\ rEmailFile' = IF written THEN rContent ELSE ""
         /\ rEvents' = Append(rEvents, IF written THEN "email_written"
                                       ELSE "email_failed")
    /\ rpc' = "written"
    /\ UNCHANGED <<rInput, rArgs, rTemplate, success, rContent, rReport,
                   exit_status>>
    /\ UNCHANGED notRoles

\* line 301 and line 304: sys.exit(main())
RolesReturn ==
    /\ \/ rpc = "written"
       \/ rpc = "prepared" /\ ~Truthy(rContent)
       \/ /\ rpc = "reported"
          /\ ~(success /\ Truthy(rArgs.email_template) /\ Truthy(rArgs.email_output))
    /\ exit_status' = ExitStatus(success, rEvents)
    /\ rpc' = "exit"
    /\ UNCHANGED <<rInput, rArgs, rTemplate, success, rContent, rReport,
                   rEmailFile, rEvents>>
    /\ UNCHANGED notRoles

RolesNext == GenerateReport \/ PrepareEmail \/ WriteEmail \/ RolesReturn

\* a run of roles/files/process_data.py, the other scripts idle
RolesStart == RolesInit /\ IipmIdle /\ ProcIdle /\ EsIdle /\ CompIdle /\ NewIdle
    /\ PipeIdle /\ GateIdle

SpecRoles == RolesStart /\ [][RolesNext]_vars

----------------------------------------------------------------------------
(* C9: the email content file is written only after generate_report has    *)
(* returned True in the same invocation, never when the report failed; and *)
(* the exit status is 0 if and only if generate_report returned True,      *)
(* whether or not the email step succeeded.                                *)
C9_ReportBeforeEmail ==
    /\ \A i \in 1..Len(rEvents) :
          rEvents[i] \in {"email_written", "email_failed"} =>
             \E j \in 1..(i - 1) : rEvents[j] = "report_true"
    /\ (rEmailFile # None) => "report_true" \in Range(rEvents)
    /\ ("report_true" \notin Range(rEvents)) => rEmailFile = None
    /\ (rpc = "exit") =>
          ((exit_status = 0) <=> ("report_true" \in Range(rEvents)))

\* the report was written and the write of the email content failed: status 0
C9_EmailFailedStatusZero ==
    /\ rpc = "exit"
    /\ exit_status = 0
    /\ "email_failed" \in Range(rEvents)

----------------------------------------------------------------------------
(* new.py: for every IIPM record with a server name, queue an update of    *)
(* the first NPID document the name matches when a contact field differs,  *)
(* and a flag on the first hygiene document when it is non-compliant; then *)
(* send the queue with one bulk call.  Server names are single lowercase   *)
(* terms, so the match query finds the documents with the same name, in    *)
(* index order.                                                            *)

IIPM_INDEX == "iipm_index"
NPID_INDEX == "npid_index"
HYGIENE_INDEX == "server_hygiene_index"

\* the _source of an IIPM document
NewIipmSources ==
    {[custodian |-> "alice"],
     [server_name |-> "srv1"],
     [server_name |-> "srv1", custodian |-> "alice"],
     [server_name |-> "srv1", custodian |-> "bob", contact_type |-> ""],
     [server_name |-> "srv2", custodian |-> "alice", contact_type |-> "email"],
     [server_name |-> "", custodian |-> "bob"]}

\* the _source of an NPID document
NewNpidSources ==
    {[server_name |-> "srv1", custodian |-> "alice"],
     [server_name |-> "srv1", custodian |-> "carol", site |-> "keep"],
     [server_name |-> "srv2"]}

\* the hygiene indices
NewHygieneIndices ==
    {[i \in 1..Len(srcs) |-> [_id |-> i, _source |-> srcs[i]]] :
        srcs \in {<<>>,
                  <<[server_name |-> "srv1", status |-> "Non-Compliant"]>>,
                  <<[server_name |-> "srv2"],
                    [server_name |-> "srv1", status |-> "compliant"]>>}}

\* str.lower() of a status
StatusLower(s) == IF s = "Non-Compliant" THEN "non-compliant" ELSE s

\* es.search(index, query={"match": {"server_name": server_name}})['hits']['hits']
MatchServerName(index, server_name) ==
    SelectSeq(index, LAMBDA d :
        /\ "server_name" \in DOMAIN d._source
        /\ Tokens(d._source.server_name) \cap Tokens(server_name) # {})

\* the fields new.py copies from IIPM to NPID
NewFields == {"custodian", "contact_type", "contact_method"}

\* update_fields: the fields IIPM gives a value that NPID does not hold
update_fields(source, npid_source) ==
    LET differs == {f \in NewFields :
                       /\ Truthy(Get(source, f))
                       /\ Get(source, f) # Get(npid_source, f)}
    IN  [f \in differs |-> source[f]]

\* lines 29-48: the NPID action an IIPM record queues, if any
NpidActions(source, npid) ==
    LET hits == MatchServerName(npid, source.server_name) IN
    IF hits # <<>> /\ update_fields(source, hits[1]._source) # EmptyDict
    THEN <<[_op_type |-> "update", _index |-> NPID_INDEX, _id |-> hits[1]._id,
            doc |-> update_fields(source, hits[1]._source)]>>
    ELSE <<>>

\* lines 50-63: the hygiene action an IIPM record queues, if any
HygieneActions(source, hygiene) ==
    LET hits == MatchServerName(hygiene, source.server_name) IN
    IF /\ hits # <<>>
       /\ StatusLower(GetOr(hits[1]._source, "status", "")) = "non-compliant"
    THEN <<[_op_type |-> "update", _index |-> HYGIENE_INDEX, _id |-> hits[1]._id,
            doc |-> [needs_attention |-> "True"]]>>
    ELSE <<>>

\* bulk(es, updates): the actions of the set applied, in the order of the list
RECURSIVE ApplyBulk(_, _, _, _, _)
ApplyBulk(index, name, actions, applied, n) ==
    IF n = 0 THEN index
    ELSE LET before == ApplyBulk(index, name, actions, applied, n - 1) IN
         IF n \in applied /\ actions[n]._index = name
         THEN EsUpdate(before, actions[n]._id, actions[n].doc)
         ELSE before

NewInit ==
    /\ nIipm \in SeqsUpTo(NewIipmSources, MaxDocs)
    /\ nNpid \in {[i \in 1..Len(s) |-> [_id |-> i, _source |-> s[i]]] :
                     s \in SeqsUpTo(NewNpidSources, MaxDocs)}
    /\ nHygiene \in NewHygieneIndices
    /\ nUpdates = <<>>
    /\ npos = 1
    /\ npc = "scan"
    /\ nrun = 1

\* one pass of the loop over scan(es, index=IIPM_INDEX), lines 22-63; a search
\* that raises ends the script before anything is sent
NewScanStep ==
    /\ npc = "scan"
    /\ npos <= Len(nIipm)
    /\ LET source == nIipm[npos]
           server_name == Get(source, "server_name")
       IN  IF ~Truthy(server_name)
           THEN UNCHANGED <<nUpdates, npc>>
           ELSE \E raised \in BOOLEAN :
                  IF raised
                  THEN /\ npc' = "failed"
                       /\ UNCHANGED nUpdates
                  ELSE /\ nUpdates' = nUpdates \o NpidActions(source, nNpid)
                                               \o HygieneActions(source, nHygiene)
                       /\ UNCHANGED npc
    /\ npos' = npos + 1
    /\ UNCHANGED <<nIipm, nNpid, nHygiene, nrun>>
    /\ UNCHANGED notNew

\* lines 65-70: bulk sends the queue; when an action fails, the others of the
\* request are applied and bulk raises
NewBulk ==
    /\ npc = "scan"
    /\ npos > Len(nIipm)
    /\ \E applied \in SUBSET (1..Len(nUpdates)) :
        /\ nNpid' = ApplyBulk(nNpid, NPID_INDEX, nUpdates, applied, Len(nUpdates))
        /\ nHygiene' = ApplyBulk(nHygiene, HYGIENE_INDEX, nUpdates, applied,
                                 Len(nUpdates))
        /\ npc' = IF applied = 1..Len(nUpdates) THEN "done" ELSE "failed"
    /\ UNCHANGED <<nIipm, nUpdates, npos, nrun>>
    /\ UNCHANGED notNew

\* the script is run again over the same IIPM index
NewNextRun ==
    /\ npc = "done"
    /\ nrun < MaxRuns
    /\ nrun' = nrun + 1
    /\ nUpdates' = <<>>
    /\ npos' = 1
    /\ npc' = "scan"
    /\ UNCHANGED <<nIipm, nNpid, nHygiene>>
    /\ UNCHANGED notNew

NewNext == NewScanStep \/ NewBulk \/ NewNextRun

\* a run of new.py, the other scripts idle
NewStart == NewInit /\ IipmIdle /\ ProcIdle /\ EsIdle /\ CompIdle /\ RolesIdle
    /\ PipeIdle /\ GateIdle

SpecNew == NewStart /\ [][NewNext]_vars

----------------------------------------------------------------------------
(* C11: once the bulk updates queued by one run of new.py have been        *)
(* applied, a second run over the same IIPM index queues no update action  *)
(* against the NPID index, whatever the IIPM and NPID indices hold.        *)
C11_SecondRunQueuesNoNpidUpdate ==
    nrun >= 2 => \A i \in 1..Len(nUpdates) : nUpdates[i]._index # NPID_INDEX

\* what the code does keep: a second run queues no NPID update when no two IIPM
\* records name the same server
NoNpidUpdateForDistinctNames ==
    (/\ nrun >= 2
     /\ \A i, j \in 1..Len(nIipm) :
          (i # j /\ "server_name" \in DOMAIN nIipm[i]
                 /\ "server_name" \in DOMAIN nIipm[j])
            => nIipm[i].server_name # nIipm[j].server_name)
      => \A i \in 1..Len(nUpdates) : nUpdates[i]._index # NPID_INDEX

----------------------------------------------------------------------------
(* The transformation steps of main of elasticsearch_script.py, lines      *)
(* 300-340: transform_roles, then format_roles for every record, then      *)
(* transform_roles_obj.  An employeeId is a string, here a sequence of     *)
(* characters, so that joining and splitting are what the code does.       *)

\* employeeIds: empty, plain, and one with a space before and a comma after
EmployeeIds == {<<>>, <<"a">>, <<"b">>, <<" ", "a", ",">>}

\* the employees of a role: one of them has no employeeId
Employees == {[employeeId |-> id] : id \in EmployeeIds} \cup {[name |-> "n1"]}

\* the first record of the file: without roles, or with one role
RoleRecords ==
    {[appCode |-> "ATU0"]}
      \cup {[appCode |-> "ATU0", roles |-> [IT_CUSTODIAN |-> employees]] :
              employees \in SeqsUpTo(Employees, MaxEmployees)}

\* the records after the first
OtherRecords ==
    {[appCode |-> "BXK0"],
     [appCode |-> "BXK0", roles |-> [IT_EXECUTIVE |-> <<[employeeId |-> <<"a">>]>>]],
     [appCode |-> "BXK0", roles |-> [IT_EXECUTIVE |-> <<[employeeId |-> <<>>]>>]]}

\* ", ".join(values)
RECURSIVE Join(_)
Join(values) ==
    IF values = <<>> THEN <<>>
    ELSE IF Len(values) = 1 THEN values[1]
    ELSE values[1] \o <<",", " ">> \o Join(Tail(values))

\* value.split(",")
RECURSIVE Split(_)
Split(value) ==
    IF "," \notin Range(value) THEN <<value>>
    ELSE LET i == CHOOSE i \in 1..Len(value) :
                     value[i] = "," /\ \A j \in 1..(i - 1) : value[j] # ","
         IN  <<SubSeq(value, 1, i - 1)>> \o Split(SubSeq(value, i + 1, Len(value)))

\* a value that is used as it is
Strip_Not(v) == v

\* v.strip()
RECURSIVE Strip(_)
Strip(v) ==
    IF v # <<>> /\ v[1] = " " THEN Strip(Tail(v))
    ELSE IF v # <<>> /\ v[Len(v)] = " " THEN Strip(SubSeq(v, 1, Len(v) - 1))
    ELSE v

\* format_roles: the list of every role becomes a comma-separated string
format_roles(item) ==
    IF "roles" \in DOMAIN item /\ DOMAIN item.roles # {}
    THEN [item EXCEPT !.roles = [role \in DOMAIN item.roles |-> Join(item.roles[role])]]
    ELSE item

\* transform_roles_obj, lines 108-123, for the string of one role
RoleObject(value) ==
    IF value = <<>> THEN EmptyDict
    ELSE IF "," \in Range(value)
         THEN [ids |-> [i \in 1..Len(Split(value)) |-> Strip(Split(value)[i])]]
         ELSE [id |-> Strip(value)]

\* transform_roles_obj, for one item
transform_roles_obj(item) ==
    IF "roles" \in DOMAIN item /\ DOMAIN item.roles # {}
    THEN [item EXCEPT !.roles =
            [role \in DOMAIN item.roles |-> RoleObject(item.roles[role])]]
    ELSE item

\* main has loaded the file: data is a list that is not empty
PipeInit ==
    /\ \E first \in RoleRecords, others \in SeqsUpTo(OtherRecords, MaxInput - 1) :
         tData = <<first>> \o others
    /\ transformed_data = <<>>
    /\ tpc = "loaded"

\* lines 300-310: emp["employeeId"] of an employee without one raises, and main
\* prints the error and returns
TransformRoles ==
    /\ tpc = "loaded"
    /\ IF \E i \in 1..Len(tData) :
            \E role \in DOMAIN GetOr(tData[i], "roles", EmptyDict) :
              \E emp \in Range(tData[i].roles[role]) : "employeeId" \notin DOMAIN emp
       THEN /\ tpc' = "returned"
            /\ UNCHANGED transformed_data
       ELSE /\ tpc' = "transformed"
            /\ transformed_data' = FinalData(tData)
    /\ UNCHANGED tData
    /\ UNCHANGED notPipe

\* lines 314-331: format_roles changes every item in place
FormatRoles ==
    /\ tpc = "transformed"
    /\ transformed_data' =
         [i \in 1..Len(transformed_data) |-> format_roles(transformed_data[i])]
    /\ tpc' = "formatted"
    /\ UNCHANGED tData
    /\ UNCHANGED notPipe

\* lines 336-341
TransformRolesObj ==
    /\ tpc = "formatted"
    /\ transformed_data' =
         [i \in 1..Len(transformed_data) |-> transform_roles_obj(transformed_data[i])]
    /\ tpc' = "objects"
    /\ UNCHANGED tData
    /\ UNCHANGED notPipe

PipeNext == TransformRoles \/ FormatRoles \/ TransformRolesObj

\* the transformation steps, the scripts idle
PipeStart == PipeInit /\ IipmIdle /\ ProcIdle /\ EsIdle /\ CompIdle /\ RolesIdle
    /\ NewIdle /\ GateIdle

SpecPipe == PipeStart /\ [][PipeNext]_vars

----------------------------------------------------------------------------
\* a string without a comma and without a space at either end
PlainId(e) ==
    /\ "," \notin Range(e)
    /\ e # <<>> => (e[1] # " " /\ e[Len(e)] # " ")

\* the employeeIds a role of a record of the input lists
IdsOf(record, role) ==
    [i \in 1..Len(record.roles[role]) |-> record.roles[role][i].employeeId]

(* C18 as stated: for a record whose role R lists n employees with         *)
(* employeeIds e1..en, strings without commas or surrounding whitespace,   *)
(* the record after the three steps has roles[R] = {} when n = 0,          *)
(* {"id": e1} when n = 1 and {"ids": [e1, ..., en]} in input order when    *)
(* n >= 2; the number of records is unchanged by the three steps.          *)
C18_RolesById ==
    tpc = "objects" =>
      /\ Len(transformed_data) = Len(tData)
      /\ \A i \in 1..Len(tData) :
           \A role \in DOMAIN GetOr(tData[i], "roles", EmptyDict) :
             LET e == IdsOf(tData[i], role)
                 object == transformed_data[i].roles[role]
             IN  (\A k \in 1..Len(e) : PlainId(e[k])) =>
                   CASE Len(e) = 0 -> DOMAIN object = {}
                     [] Len(e) = 1 -> DOMAIN object = {"id"} /\ object.id = e[1]
                     [] OTHER -> DOMAIN object = {"ids"} /\ object.ids = e

(* C18, amended: as stated, but a role that lists one employee whose       *)
(* employeeId is the empty string ends as {} and not as {"id": ""}.        *)
C18_RolesByNonEmptyId ==
    tpc = "objects" =>
      /\ Len(transformed_data) = Len(tData)
      /\ \A i \in 1..Len(tData) :
           \A role \in DOMAIN GetOr(tData[i], "roles", EmptyDict) :
             LET e == IdsOf(tData[i], role)
                 object == transformed_data[i].roles[role]
             IN  (\A k \in 1..Len(e) : PlainId(e[k])) =>
                   CASE Len(e) = 0 -> DOMAIN object = {}
                     [] Len(e) = 1 /\ e[1] = <<>> -> DOMAIN object = {}
                     [] Len(e) = 1 /\ e[1] # <<>> ->
                          DOMAIN object = {"id"} /\ object.id = e[1]
                     [] OTHER -> DOMAIN object = {"ids"} /\ object.ids = e

\* two records through the three steps: the role of the first lists two employees
\* and ends with their ids in input order, that of the second lists one employee
\* with an empty id and ends empty
C18_TwoIdsInOrder ==
    /\ tpc = "objects"
    /\ Len(transformed_data) = 2
    /\ DOMAIN transformed_data[1].roles = {"IT_CUSTODIAN"}
    /\ DOMAIN transformed_data[1].roles.IT_CUSTODIAN = {"ids"}
    /\ transformed_data[1].roles.IT_CUSTODIAN.ids = << <<"b">>, <<"a">> >>
    /\ DOMAIN transformed_data[2].roles = {"IT_EXECUTIVE"}
    /\ IdsOf(tData[2], "IT_EXECUTIVE") = << <<>> >>
    /\ DOMAIN transformed_data[2].roles.IT_EXECUTIVE = {}

----------------------------------------------------------------------------
(* SpecGate: main of src/elasticsearch_script.py, followed for its index   *)
(* name and for the calls it makes of the Elasticsearch client.            *)
(*                                                                         *)
(* A string is a sequence of characters; three words stand for the long    *)
(* strings the code looks for:                                             *)
(*   "W"  server_compliance_metrics_index  (31 characters)                 *)
(*   "S"  atu0-server-compliance-metrics   (30 characters)                 *)
(*   "L"  255 lower-case letters                                           *)
(* "a" is a lower-case letter, "A" an upper-case one, "0" a digit, " " any *)
(* white space, "'" a quote or a backslash, "#" any other character.       *)
(* Apart from "S" no input has -server-compliance- in it, so the third     *)
(* pattern of line 219 finds nothing the second has not found.             *)

\* [a-zA-Z0-9_.-], the characters of the group of the first pattern (line 217)
NameTokens == {"a", "A", "0", "-", "_", ".", "W", "S", "L"}

\* what begins with a letter, for [a-z] of line 237 after lower()
Letters == {"a", "W", "S", "L"}

\* the characters and words of the index names drawn at length up to MaxName
GateAlphabet == {"a", "A", "0", "_", "{", ":", "'", "W"}

\* index names beyond those, with the dictionary text of a playbook variable
LongIndexNames ==
    { <<"S">>,
      <<"{", "S", "}">>,
      <<"W", "L">>,
      <<"W", "L", "a">>,
      <<"W", " ", ".", "a">>,
      <<"W", ":", "-", "a">>,
      <<"{", "a", "}">>,
      <<"{", "#", "W", "#", "}">>,
      <<"{", "'", "W", "'", ":", " ", "'", "a", "-", "0", ".", "A", "'", "}">> }

IndexNameArgs == SeqsUpTo(GateAlphabet, MaxName) \cup LongIndexNames

\* len of one character or word
TokenLen(t) ==
    CASE t = "W" -> 31
      [] t = "S" -> 30
      [] t = "L" -> 255
      [] OTHER -> 1

\* len(s)
RECURSIVE StrLen(_)
StrLen(s) == IF s = <<>> THEN 0 ELSE TokenLen(Head(s)) + StrLen(Tail(s))

\* s.lower()
StrLower(s) == [i \in 1..Len(s) |-> IF s[i] = "A" THEN "a" ELSE s[i]]

\* index_name.replace('\\', '').replace('"', '').replace("'", "")
CleanedString(s) == SelectSeq(s, LAMBDA t : t # "'")

\* the end of the longest run of name characters that begins at i
RECURSIVE RunEnd(_, _)
RunEnd(s, i) ==
    IF i < Len(s) /\ s[i + 1] \in NameTokens THEN RunEnd(s, i + 1) ELSE i

\* the first position from j on that [:\s]* does not take
RECURSIVE AfterSeparators(_, _)
AfterSeparators(s, j) ==
    IF j <= Len(s) /\ s[j] \in {":", " "} THEN AfterSeparators(s, j + 1) ELSE j

\* group 1 of the leftmost match of the first pattern, <<>> without a match
Pattern1(s) ==
    LET starts == {i \in 1..Len(s) :
                     /\ s[i] = "W"
                     /\ AfterSeparators(s, i + 1) <= Len(s)
                     /\ s[AfterSeparators(s, i + 1)] \in NameTokens}
    IN  IF starts = {} THEN <<>>
        ELSE LET i == CHOOSE k \in starts : \A l \in starts : k <= l
                 j == AfterSeparators(s, i + 1)
             IN  SubSeq(s, j, RunEnd(s, j))

\* the match of the second pattern, <<>> without a match
Pattern2(s) == IF "S" \in Range(s) THEN <<"S">> ELSE <<>>

\* extracted_name after the loop over the patterns, <<>> for None
ExtractedName(s) == IF Pattern1(s) # <<>> THEN Pattern1(s) ELSE Pattern2(s)

\* valid_indices[0] of the findall of line 237 from position i on, <<>> when
\* valid_indices is empty
RECURSIVE FirstValidIndex(_, _)
FirstValidIndex(s, i) ==
    IF i > Len(s) THEN <<>>
    ELSE IF s[i] \in Letters
    THEN LET idx == SubSeq(s, i, RunEnd(s, i))
         IN  IF StrLen(idx) > 5 /\ Range(idx) \cap {"W", "S"} # {}
             THEN idx
             ELSE FirstValidIndex(s, RunEnd(s, i) + 1)
    ELSE FirstValidIndex(s, i + 1)

\* the test of line 205
LooksLikeDictionary(s) == (s # <<>> /\ s[1] = "{") \/ "W" \in Range(s)

IndexNamePattern_AnyStart(s) ==
    /\ s # <<>>
    /\ \A i \in 1..Len(s) : s[i] \in {"a", "0", "_", ".", "-", "W", "S", "L"}

\* re.match(r'^[a-z0-9][a-z0-9_.-]*$', s)
IndexNamePattern(s) ==
    /\ s # <<>>
    /\ s[1] \in {"a", "0", "W", "S", "L"}
    /\ \A i \in 1..Len(s) : s[i] \in {"a", "0", "_", ".", "-", "W", "S", "L"}

\* a call of the client that names an index, through get_safe_index_name()
NamedCall(op) == [op |-> op, named |-> TRUE, index |-> VALIDATED_INDEX_NAME]

\* a call of the client that names no index
UnnamedCall(op) == [op |-> op, named |-> FALSE, index |-> <<>>]

GateInit ==
    /\ gArg \in IndexNameArgs
    /\ index_name = gArg
    /\ VALIDATED_INDEX_NAME = <<>>
    /\ gReBound = FALSE
    /\ gLeft = 0
    /\ gCalls = <<>>
    /\ gpc = "parse"

\* lines 199-252: the name is taken out of the text of a dictionary
GateExtract ==
    /\ gpc = "parse"
    /\ IF LooksLikeDictionary(index_name)
       THEN LET cleaned_string == CleanedString(index_name)
                extracted_name == ExtractedName(cleaned_string)
                potential == FirstValidIndex(StrLower(cleaned_string), 1)
            IN  /\ gReBound' = TRUE
                /\ IF extracted_name # <<>>
                   THEN index_name' = extracted_name /\ gpc' = "validate"
                   ELSE IF potential # <<>>
                   THEN index_name' = potential /\ gpc' = "validate"
                   ELSE index_name' = index_name /\ gpc' = "returned"
       ELSE /\ gpc' = "validate"
            /\ UNCHANGED <<index_name, gReBound>>
    /\ UNCHANGED <<gArg, VALIDATED_INDEX_NAME, gLeft, gCalls>>
    /\ UNCHANGED notGate

\* lines 254-272: the name is lower-cased and validated; re is a local of main
\* because of the import of line 209, and unbound when that line has not run
GateValidate ==
    /\ gpc = "validate"
    /\ index_name' = StrLower(index_name)
    /\ IF ~gReBound
       THEN gpc' = "raised" /\ UNCHANGED VALIDATED_INDEX_NAME
       ELSE IF ~IndexNamePattern(index_name')
       THEN gpc' = "returned" /\ UNCHANGED VALIDATED_INDEX_NAME
       ELSE IF StrLen(index_name') > 255 \/ StrLen(index_name') = 0
       THEN gpc' = "returned" /\ UNCHANGED VALIDATED_INDEX_NAME
       ELSE gpc' = "load" /\ VALIDATED_INDEX_NAME' = index_name'
    /\ UNCHANGED <<gArg, gReBound, gLeft, gCalls>>
    /\ UNCHANGED notGate

\* lines 274-388: the input file is read and transformed; main returns when the
\* file is missing, is no list of records, or a step fails
GateLoad ==
    /\ gpc = "load"
    /\ \E n \in 0..MaxInput :
         /\ gLeft' = n
         /\ gpc' = IF n = 0 THEN "returned" ELSE "connect"
    /\ UNCHANGED <<gArg, index_name, VALIDATED_INDEX_NAME, gReBound, gCalls>>
    /\ UNCHANGED notGate

\* lines 391-425: the client is made, then ping and info
GateConnect ==
    /\ gpc = "connect"
    /\ \E outcome \in {"no client", "no ping", "connected"} :
         /\ gCalls' = CASE outcome = "no client" -> gCalls
                        [] outcome = "no ping" -> Append(gCalls, UnnamedCall("ping"))
                        [] OTHER -> gCalls \o <<UnnamedCall("ping"), UnnamedCall("info")>>
         /\ gpc' = IF outcome = "connected" THEN "ensure" ELSE "returned"
    /\ UNCHANGED <<gArg, index_name, VALIDATED_INDEX_NAME, gReBound, gLeft>>
    /\ UNCHANGED notGate

\* lines 428-545: indices.exists, and indices.create for a missing index
GateEnsureIndex ==
    /\ gpc = "ensure"
    /\ \E exists \in BOOLEAN, ok \in BOOLEAN :
         /\ gCalls' = gCalls \o <<NamedCall("indices.exists")>>
                        \o (IF exists THEN <<>> ELSE <<NamedCall("indices.create")>>)
         /\ gpc' = IF ok THEN "count" ELSE "returned"
    /\ UNCHANGED <<gArg, index_name, VALIDATED_INDEX_NAME, gReBound, gLeft>>
    /\ UNCHANGED notGate

\* lines 552-583: count, and a search for a sample of a non-empty index
GateCount ==
    /\ gpc = "count"
    /\ \E sample \in BOOLEAN :
         gCalls' = gCalls \o <<NamedCall("count")>>
                     \o (IF sample THEN <<NamedCall("search")>> ELSE <<>>)
    /\ gpc' = "loop"
    /\ UNCHANGED <<gArg, index_name, VALIDATED_INDEX_NAME, gReBound, gLeft>>
    /\ UNCHANGED notGate

\* lines 586-776: one pass of the loop over final_data
GateLoopPass ==
    /\ gpc = "loop"
    /\ gLeft > 0
    /\ \E kind \in {"skipped", "search failed", "update", "index"} :
         gCalls' = CASE kind = "skipped" -> gCalls
                     [] kind = "search failed" -> Append(gCalls, NamedCall("search"))
                     [] OTHER -> gCalls \o <<NamedCall("search"), NamedCall(kind)>>
    /\ gLeft' = gLeft - 1
    /\ UNCHANGED <<gArg, index_name, VALIDATED_INDEX_NAME, gReBound, gpc>>
    /\ UNCHANGED notGate

\* the loop is through
GateDone ==
    /\ gpc = "loop"
    /\ gLeft = 0
    /\ gpc' = "done"
    /\ UNCHANGED <<gArg, index_name, VALIDATED_INDEX_NAME, gReBound, gLeft, gCalls>>
    /\ UNCHANGED notGate

GateNext ==
    \/ GateExtract
    \/ GateValidate
    \/ GateLoad
    \/ GateConnect
    \/ GateEnsureIndex
    \/ GateCount
    \/ GateLoopPass
    \/ GateDone

GateStart == GateInit /\ IipmIdle /\ ProcIdle /\ EsIdle /\ CompIdle /\ RolesIdle
    /\ NewIdle /\ PipeIdle

SpecGate == GateStart /\ [][GateNext]_vars

----------------------------------------------------------------------------
(* C20: main makes no call of the Elasticsearch client, of any kind,       *)
(* unless the final lower-cased index name begins with a lower-case letter *)
(* or a digit, has only lower-case letters, digits, "_", "." and "-" after *)
(* it, and is 1 to 255 characters long; and every call that names an index *)
(* names that validated name.                                              *)
C20_IndexNameGate ==
    gCalls # <<>> =>
      /\ index_name # <<>>
      /\ Head(index_name) \in {"a", "0", "W", "S", "L"}
      /\ \A i \in 2..Len(index_name) :
           index_name[i] \in {"a", "0", "W", "S", "L", "_", ".", "-"}
      /\ StrLen(index_name) >= 1
      /\ StrLen(index_name) <= 255
      /\ \A i \in 1..Len(gCalls) :
           gCalls[i].named => gCalls[i].index = index_name

\* a run to the end of the loop whose argument was the text of a dictionary: the
\* name taken out of it was lower-cased, and an index was created under it and
\* written to
C20_ExtractedNameUsed ==
    /\ gpc = "done"
    /\ "W" \in Range(gArg)
    /\ "A" \in Range(gArg)
    /\ index_name # gArg
    /\ "A" \notin Range(index_name)
    /\ \E i \in 1..Len(gCalls) : gCalls[i].op = "indices.create"
    /\ \E i \in 1..Len(gCalls) : gCalls[i].op = "index"
    /\ \E i \in 1..Len(gCalls) : gCalls[i].op = "update"

\* a name of exactly 255 characters passes the gate, and one more does not
C20_LongestNamePasses ==
    /\ gpc = "done"
    /\ StrLen(index_name) = 255
    /\ gCalls # <<>>

\* an ordinary index name, which line 205 passes by, ends main at line 259
OrdinaryNameRaises ==
    (gpc \in {"load", "connect", "ensure", "count", "loop", "done"}) =>
        LooksLikeDictionary(gArg)

=============================================================================
